---- MODULE Spec2Model ----
(***************************************************************************)
(* A model of the Harpia view-templating engine (TemplateEngine) and of    *)
(* the response wrapper that calls it (ResponseWrapper.render).            *)
(*                                                                         *)
(* Text is modelled at the level the engine's regular expressions see it:  *)
(* a text is a sequence of tokens, a token being either a directive that   *)
(* one of the regular expressions recognises ({{= ... }}, {{~ ... }},      *)
(* {{ ... }}, {{{ ... }}}, ##) or a run of literal characters.  A string   *)
(* value of the data context is a text too, so a value that spells a       *)
(* directive is the same token as a directive written in a file.           *)
(***************************************************************************)
EXTENDS Integers, Sequences, FiniteSets, TLC

(***************************************************************************)
(* JavaScript values.  Every value is a record tagged by k.                *)
(***************************************************************************)
Undef == [k |-> "undef"]
Null == [k |-> "null"]
Throw == [k |-> "throw"]
Bool(b) == [k |-> "bool", b |-> b]
Str(txt) == [k |-> "str", txt |-> txt]
List(items) == [k |-> "list", items |-> items]
Obj(keys, vals) == [k |-> "obj", keys |-> keys, vals |-> vals]

Lit(s) == [t |-> "lit", s |-> s]
Ws == [t |-> "ws"]
Nl == [t |-> "nl"]
Hash == [t |-> "hash"]

\* value !== undefined && value !== null
IsNullish(v) == v.k \in {"undef", "null"}

\* JavaScript truthiness of a value.
Truthy(v) ==
  CASE v.k \in {"undef", "null", "throw"} -> FALSE
    [] v.k = "bool" -> v.b
    [] v.k = "str" -> v.txt # <<>>
    [] OTHER -> TRUE

\* The names a data context can bind (the top-level keys of a Data object).
Keys == {"x", "y", "item", "key", "xs", "m", "flag"}

\* A Data object: every key of Keys, unbound keys holding Undef.
EmptyData == [n \in Keys |-> Undef]

RECURSIVE IndexOf(_, _, _)
\* The first index >= i of seq holding e, or 0.
IndexOf(seq, e, i) ==
  IF i > Len(seq) THEN 0
  ELSE IF seq[i] = e THEN i
  ELSE IndexOf(seq, e, i + 1)

\* obj[key] of an object value (optional chaining: anything else yields undefined).
Member(v, key) ==
  IF v.k = "obj" /\ IndexOf(v.keys, key, 1) > 0
  THEN v.vals[IndexOf(v.keys, key, 1)]
  ELSE Undef

(***************************************************************************)
(* Expressions: the source text between the braces of a token.             *)
(*   path  a.b.c                 call  name(arg, ...)                      *)
(*   lit   a JavaScript literal                                            *)
(***************************************************************************)
Path(p) == [e |-> "path", p |-> p]
Call(f, args) == [e |-> "call", f |-> f, args |-> args]
Const(v) == [e |-> "lit", v |-> v]
NoParams == [e |-> "none"]

RECURSIVE Reduce(_, _, _)
\* varName.split(".").reduce((acc, key) => acc?.[key], data), from segment i on.
Reduce(p, i, acc) ==
  IF i > Len(p) THEN acc
  ELSE Reduce(p, i + 1, Member(acc, p[i]))

\* resolveVariable: dot-path lookup of the expression text in the data.
resolveVariable(x, data) ==
  IF x.e = "path" /\ x.p[1] \in Keys
  THEN Reduce(x.p, 2, data[x.p[1]])
  ELSE Undef

RECURSIVE Strict(_, _, _)
\* a.b.c evaluated by JavaScript: member access on undefined or null throws.
Strict(p, i, acc) ==
  IF i > Len(p) THEN acc
  ELSE IF IsNullish(acc) THEN Throw
  ELSE Strict(p, i + 1, Member(acc, p[i]))

\* evaluateExpression: the try/catch turns every failure into null.
\* new Function(...keys, "return <expression>;")(...values) runs the expression
\* with the keys of the data in scope.
evaluateExpression(x, data) ==
  LET Caught(v) == IF v = Throw THEN Null ELSE v
  IN Caught(CASE x.e = "path" ->
                   IF x.p[1] \in Keys /\ data[x.p[1]] # Undef
                   THEN Strict(x.p, 2, data[x.p[1]])
                   ELSE Throw
              [] x.e = "lit" -> x.v
              [] OTHER -> Throw)

(***************************************************************************)
(* String(v): the text a value contributes when it replaces a token.       *)
(***************************************************************************)
RECURSIVE JoinItems(_, _)
RECURSIVE ToText(_)
\* Array.prototype.join(","): null and undefined items contribute nothing.
JoinItems(items, i) ==
  IF i > Len(items) THEN <<>>
  ELSE (IF i > 1 THEN <<Lit(",")>> ELSE <<>>)
       \o (IF IsNullish(items[i]) THEN <<>> ELSE ToText(items[i]))
       \o JoinItems(items, i + 1)

ToText(v) ==
  CASE v.k = "str" -> v.txt
    [] v.k = "bool" -> IF v.b THEN <<Lit("true")>> ELSE <<Lit("false")>>
    [] v.k = "list" -> JoinItems(v.items, 1)
    [] v.k = "obj" -> <<Lit("[object Object]")>>
    [] OTHER -> <<>>

(***************************************************************************)
(* escapeHtml.  A literal token is one of the eight characters (the        *)
(* backtick is written "BACKTICK") or a run                                *)
(* that holds none of them.  A token whose spelling holds one of the       *)
(* characters (every {{= ... }} and {{~ var ... }} does: "=") loses its     *)
(* spelling and is kept as the escaped text of that token.                 *)
(***************************************************************************)
\* unsafe.replace(/c/g, ref) on one literal token: the character itself, or the
\* "&" that opens a reference an earlier replacement wrote.
ReplaceIn(s, c, ref) ==
  CASE s = c -> ref
    [] c = "&" /\ s \in {"&amp;", "&lt;", "&gt;", "&quot;", "&#039;", "&#96;", "&#61;", "&#47;"} ->
         ref \o SubSeq(s, 2, Len(s))
    [] OTHER -> s

RECURSIVE ReplaceAll(_, _, _)
\* The replacements of a chain, made one after the other on one literal token.
ReplaceAll(s, chain, i) ==
  IF i > Len(chain) THEN s
  ELSE ReplaceAll(ReplaceIn(s, chain[i][1], chain[i][2]), chain, i + 1)

\* The eight replacements with "&" made last: a reference written by an earlier
\* replacement is escaped again.
EscapeAmpLast(s) ==
  ReplaceAll(s, <<<<"<", "&lt;">>, <<">", "&gt;">>, <<"\"", "&quot;">>, <<"'", "&#039;">>,
                  <<"BACKTICK", "&#96;">>, <<"=", "&#61;">>, <<"/", "&#47;">>,
                  <<"&", "&amp;">>>>, 1)

\* The chain of lines 365 to 372, "&" first.
EscapeChar(s) ==
  ReplaceAll(s, <<<<"&", "&amp;">>, <<"<", "&lt;">>, <<">", "&gt;">>, <<"\"", "&quot;">>,
                  <<"'", "&#039;">>, <<"BACKTICK", "&#96;">>, <<"=", "&#61;">>,
                  <<"/", "&#47;">>>>, 1)

RECURSIVE HasSpecial(_)
\* Whether the source text of an expression holds one of the eight characters.
HasSpecial(x) ==
  CASE x.e = "path" -> FALSE
    [] x.e = "call" -> \E i \in 1..Len(x.args) : HasSpecial(x.args[i])
    [] x.e = "lit" -> x.v.k \in {"str", "obj"}
    [] OTHER -> FALSE

RECURSIVE EscapeExpr(_)
\* The source text of an expression after the replacements: the name and the
\* parentheses of a call stay, an argument holding one of the characters becomes
\* text that is no call, no variable and no expression.
EscapeExpr(x) ==
  CASE x.e = "call" -> Call(x.f, [i \in 1..Len(x.args) |-> EscapeExpr(x.args[i])])
    [] HasSpecial(x) -> [e |-> "escaped", of |-> x]
    [] OTHER -> x

\* The braces, "~", "#" and the keywords are not replaced: {{ expr }}, {{{ expr }}}
\* and {{~ if (expr) }} stay what they are, with the expression text escaped; a
\* {{= ... }} or {{~ var ... }} loses its "=" and is a directive no longer; so
\* does upper-cased source text that holds one of the characters.
EscapeToken(tok) ==
  CASE tok.t = "lit" -> Lit(EscapeChar(tok.s))
    [] tok.t \in {"esc", "raw", "if", "src"} -> [tok EXCEPT !.x = EscapeExpr(tok.x)]
    [] tok.t \in {"layout", "block", "endblock", "define", "partial", "include", "var"} ->
         [t |-> "escd", of |-> tok]
    [] tok.t = "upper" /\ tok.of.t = "src" /\ HasSpecial(tok.of.x) ->
         [t |-> "escd", of |-> tok]
    [] OTHER -> tok

\* escapeHtml(unsafe): String(unsafe) with the eight replacements applied.
escapeHtml(v) ==
  LET Escaped(txt) == [i \in 1..Len(txt) |-> EscapeToken(txt[i])]
  IN IF IsNullish(v) THEN <<>> ELSE Escaped(ToText(v))

(***************************************************************************)
(* Plugins.  The registry maps a name to a callable; the callables of the  *)
(* model are upper (str => str.toUpperCase(), which throws on a value that *)
(* is no string), boom (throws) and nil (returns nothing).                 *)
(***************************************************************************)
\* toUpperCase of a text: letters change, the eight characters do not.
toUpperCase(txt) ==
  [i \in 1..Len(txt) |->
     IF txt[i].t = "src" \/ (txt[i].t = "lit" /\ EscapeChar(txt[i].s) = txt[i].s)
     THEN [t |-> "upper", of |-> txt[i]]
     ELSE txt[i]]

\* plugins[name](...args)
Invoke(name, args) ==
  CASE name = "upper" ->
         IF Len(args) >= 1 /\ args[1].k = "str"
         THEN Str(toUpperCase(args[1].txt))
         ELSE Throw
    [] name = "boom" -> Throw
    [] OTHER -> Undef

\* argsString.split(","): a nested call with two or more arguments is cut at its
\* commas; its first and last pieces are no call and no variable.
Frag(x, i) == [e |-> "frag", of |-> x, i |-> i]

RECURSIVE SplitArgs(_, _)
SplitArgs(args, i) ==
  IF i > Len(args) THEN <<>>
  ELSE (IF args[i].e = "call" /\ Len(args[i].args) >= 2
        THEN <<Frag(args[i], 1)>>
             \o SubSeq(args[i].args, 2, Len(args[i].args) - 1)
             \o <<Frag(args[i], Len(args[i].args))>>
        ELSE <<args[i]>>)
       \o SplitArgs(args, i + 1)

RECURSIVE callPlugin(_, _, _)
RECURSIVE ArgValues(_, _, _, _)
\* The map over the split arguments: nested call, else variable, else raw text.
ArgValues(args, i, data, plugins) ==
  IF i > Len(args) THEN <<>>
  ELSE <<(IF args[i].e = "call"
          THEN callPlugin(args[i], data, plugins)
          ELSE IF ~IsNullish(resolveVariable(args[i], data))
          THEN resolveVariable(args[i], data)
          ELSE Str(<<[t |-> "src", x |-> args[i]]>>))>>
       \o ArgValues(args, i + 1, data, plugins)

\* callPlugin: null when the text is no call or the name is not registered;
\* Throw when the callable (or a nested one) throws.
callPlugin(x, data, plugins) ==
  IF x.e # "call" THEN Null
  ELSE LET split == IF x.args = <<>> THEN <<Const(Str(<<>>))>> ELSE SplitArgs(x.args, 1)
           vals == ArgValues(split, 1, data, plugins)
       IN IF \E i \in 1..Len(vals) : vals[i] = Throw THEN Throw
          ELSE IF x.f \in plugins THEN Invoke(x.f, vals)
          ELSE Null

(***************************************************************************)
(* Results of the operations that can fail: a text, or an error.           *)
(***************************************************************************)
NoPath == [segs |-> <<>>, ext |-> ""]
Ok(txt) == [ok |-> TRUE, txt |-> txt]
Fail(m, path) == [ok |-> FALSE, m |-> m, path |-> path]
PluginThrew == Fail("thrown by plugin", NoPath)
NotAFunction == Fail("list.map is not a function", NoPath)

\* processExpression: variable, then plugin, then generic evaluation, else "".
\* The plugin call is outside the try block: what it throws is not caught.
processExpression(x, data, plugins, shouldEscape) ==
  LET out(v) == Ok(IF shouldEscape THEN escapeHtml(v) ELSE ToText(v))
      First(variableValue, pluginResult, evaluated) ==
        IF ~IsNullish(variableValue) THEN out(variableValue)
        ELSE IF pluginResult = Throw THEN PluginThrew
        ELSE IF ~IsNullish(pluginResult) THEN out(pluginResult)
        ELSE IF ~IsNullish(evaluated) THEN out(evaluated)
        ELSE Ok(<<>>)
  IN First(resolveVariable(x, data), callPlugin(x, data, plugins),
           evaluateExpression(x, data))

\* Two results in sequence: the first failure, else the texts concatenated.
Then(a, b) == IF ~a.ok THEN a ELSE IF ~b.ok THEN b ELSE Ok(a.txt \o b.txt)

RECURSIVE RawPass(_, _, _, _)
\* content.replace(/{{{\s*(.+?)\s*}}}/gs, ...): every {{{ expr }}} token.
RawPass(txt, i, data, plugins) ==
  IF i > Len(txt) THEN Ok(<<>>)
  ELSE Then(IF txt[i].t = "raw"
            THEN processExpression(txt[i].x, data, plugins, FALSE)
            ELSE Ok(<<txt[i]>>),
            RawPass(txt, i + 1, data, plugins))

\* What /{{\s*(.+?)\s*}}/ does with one token of the text it scans.  It matches
\* every {{ ... }}: an escaped interpolation; a directive still in the text, whose
\* inside ("= ...", "~ ...") evaluates to nothing; and the first eight characters of
\* a {{{ expr }}} that a raw value brought in, whose inside ("{ expr") evaluates to
\* nothing and whose last brace stays.
EscOne(tok, data, plugins) ==
  CASE tok.t = "esc" -> processExpression(tok.x, data, plugins, TRUE)
    [] tok.t = "raw" -> Ok(<<Lit("}")>>)
    [] tok.t \in {"layout", "block", "endblock", "define", "partial", "include",
                  "var", "if", "else", "endif", "for", "forkv", "endfor"} -> Ok(<<>>)
    [] tok.t = "escd" -> Ok(<<>>)
    [] OTHER -> Ok(<<tok>>)

RECURSIVE EscPass(_, _, _, _)
\* content.replace(/{{\s*(.+?)\s*}}/gs, ...)
EscPass(txt, i, data, plugins) ==
  IF i > Len(txt) THEN Ok(<<>>)
  ELSE Then(EscOne(txt[i], data, plugins), EscPass(txt, i + 1, data, plugins))

\* interpolateVariables: the raw pass, then the escaped pass over its result.
interpolateVariables(content, data, plugins) ==
  LET Second(first) == IF ~first.ok THEN first ELSE EscPass(first.txt, 1, data, plugins)
  IN Second(RawPass(content, 1, data, plugins))

RECURSIVE StripFrom(_, _, _)
\* content.replace(/##.*$/gm, ""): from ## to the end of its line.
StripFrom(txt, i, inComment) ==
  IF i > Len(txt) THEN <<>>
  ELSE IF txt[i].t = "nl" THEN <<txt[i]>> \o StripFrom(txt, i + 1, FALSE)
  ELSE IF inComment \/ txt[i].t = "hash" THEN StripFrom(txt, i + 1, TRUE)
  ELSE <<txt[i]>> \o StripFrom(txt, i + 1, FALSE)

removeComments(content) == StripFrom(content, 1, FALSE)

(***************************************************************************)
(* The directives.                                                         *)
(***************************************************************************)
Esc(x) == [t |-> "esc", x |-> x]
Raw(x) == [t |-> "raw", x |-> x]
Layout(name) == [t |-> "layout", name |-> name]
Block(name) == [t |-> "block", name |-> name]
EndBlock == [t |-> "endblock"]
Define(name) == [t |-> "define", name |-> name]
Partial(name, params) == [t |-> "partial", name |-> name, params |-> params]
Include(path, params) == [t |-> "include", path |-> path, params |-> params]
Var(name, x) == [t |-> "var", name |-> name, x |-> x]
If(x) == [t |-> "if", x |-> x]
Else == [t |-> "else"]
EndIf == [t |-> "endif"]
For(item, list) == [t |-> "for", item |-> item, list |-> list]
EndFor == [t |-> "endfor"]

RECURSIVE FirstOf(_, _, _)
\* The first index >= i of txt whose token kind is in kinds, or 0.
FirstOf(txt, kinds, i) ==
  IF i > Len(txt) THEN 0
  ELSE IF txt[i].t \in kinds THEN i
  ELSE FirstOf(txt, kinds, i + 1)

\* extractLayout: the name of the first layout directive, "" for null.  The
\* directive is matched, not removed.
extractLayout(content) ==
  IF FirstOf(content, {"layout"}, 1) = 0 THEN ""
  ELSE content[FirstOf(content, {"layout"}, 1)].name

\* The names a block can have, and the block map of a view that has no block:
\* the object literal {} of line 172, whose lookup by name also finds the members
\* it inherits from Object.prototype (toString is a function).
BlockNames == {"body", "content", "toString"}
NoBlocks ==
  [has |-> {},
   body |-> [n \in BlockNames |->
               IF n = "toString" THEN <<Lit("function toString() { [native code] }")>>
               ELSE <<>>]]

RECURSIVE ExtractFrom(_, _, _, _)
\* extractBlocks: every block ... endblock span (the body ends at the first
\* endblock) is recorded under its name, a later one replacing an earlier one of
\* the same name, and removed from the text.
ExtractFrom(txt, i, blocks, rest) ==
  IF i > Len(txt) THEN [blocks |-> blocks, content |-> rest]
  ELSE LET j == FirstOf(txt, {"endblock"}, i + 1)
       IN IF txt[i].t = "block" /\ j > 0
          THEN ExtractFrom(txt, j + 1,
                 [has |-> blocks.has \cup {txt[i].name},
                  body |-> [blocks.body EXCEPT ![txt[i].name] = SubSeq(txt, i + 1, j - 1)]],
                 rest)
          ELSE ExtractFrom(txt, i + 1, blocks, Append(rest, txt[i]))

\* A variant that records the blocks and removes only their directives.
extractBlocksInPlace(content) ==
  [blocks |-> ExtractFrom(content, 1, NoBlocks, <<>>).blocks,
   content |-> SelectSeq(content, LAMBDA tok : tok.t \notin {"block", "endblock"})]

extractBlocks(content) == ExtractFrom(content, 1, NoBlocks, <<>>)

IsSpace(tok) == tok.t \in {"ws", "nl"}

\* if (remainingView.trim() && !blocks.body) blocks.body = remainingView
WithBody(blocks, remainingView) ==
  IF (\E i \in 1..Len(remainingView) : ~IsSpace(remainingView[i]))
     /\ blocks.body["body"] = <<>>
  THEN [has |-> blocks.has \cup {"body"},
        body |-> [blocks.body EXCEPT !["body"] = remainingView]]
  ELSE blocks

RECURSIVE ApplyFrom(_, _, _)
\* applyLayout's replace: each define block('name') becomes blocks[name] || "".
ApplyFrom(txt, i, blocks) ==
  IF i > Len(txt) THEN <<>>
  ELSE (IF txt[i].t = "define"
        THEN (IF txt[i].name \in BlockNames THEN blocks.body[txt[i].name] ELSE <<>>)
        ELSE <<txt[i]>>)
       \o ApplyFrom(txt, i + 1, blocks)

\* [...content.matchAll(regex)]: the tokens of the given kind, in text order.
Matches(content, kind) == SelectSeq(content, LAMBDA tok : tok.t = kind)

\* content.replace(match[0], rendered): the first occurrence of the matched text.
ReplaceFirst(content, tok, rendered) ==
  LET i == IndexOf(content, tok, 1)
  IN IF i = 0 THEN content
     ELSE SubSeq(content, 1, i - 1) \o rendered \o SubSeq(content, i + 1, Len(content))

\* A merge in which the caller's value wins for a key present in both.
SpreadUnder(data, params, i) ==
  [n \in Keys |-> IF data[n] # Undef THEN data[n] ELSE Member(params, n)]

RECURSIVE SpreadFrom(_, _, _)
\* { ...data, ...params }: the own keys of an object value, in order.
SpreadFrom(data, params, i) ==
  IF i > Len(params.keys) THEN data
  ELSE SpreadFrom(IF params.keys[i] \in Keys
                  THEN [data EXCEPT ![params.keys[i]] = params.vals[i]]
                  ELSE data,
                  params, i + 1)

\* match[2] ? this.evaluateExpression(match[2], data) : {}
FragmentParams(tok, data) ==
  IF tok.params = NoParams THEN Obj(<<>>, <<>>) ELSE evaluateExpression(tok.params, data)

\* A variant that puts the file's text in place of the directive as it is.
InsertFragmentAsIs(content, tok, fileText, data, params, plugins) ==
  Ok(ReplaceFirst(content, tok, fileText))

\* A partial or include once its file is read: interpolated against the data
\* spread with the params, and put in place of its directive.
InsertFragment(content, tok, fileText, data, params, plugins) ==
  LET Replaced(rendered) ==
        IF ~rendered.ok THEN rendered
        ELSE Ok(ReplaceFirst(content, tok, rendered.txt))
  IN Replaced(interpolateVariables(
                fileText,
                IF params.k = "obj" THEN SpreadFrom(data, params, 1) ELSE data,
                plugins))

RECURSIVE ExtractVarsFrom(_, _, _, _)
\* extractVariables: each var directive assigns data[name] and is removed.
ExtractVarsFrom(txt, i, data, out) ==
  IF i > Len(txt) THEN [txt |-> out, data |-> data]
  ELSE IF txt[i].t = "var"
  THEN ExtractVarsFrom(txt, i + 1,
         IF txt[i].name \in Keys
         THEN [data EXCEPT ![txt[i].name] = evaluateExpression(txt[i].x, data)]
         ELSE data,
         out)
  ELSE ExtractVarsFrom(txt, i + 1, data, Append(out, txt[i]))

\* A variant in which every expression is evaluated against the data as it was
\* before the first assignment.
extractVariablesAtOnce(content, data) ==
  [txt |-> SelectSeq(content, LAMBDA tok : tok.t # "var"),
   data |-> [n \in Keys |->
               IF \E i \in 1..Len(content) : content[i].t = "var" /\ content[i].name = n
               THEN evaluateExpression(
                      content[CHOOSE i \in 1..Len(content) :
                                /\ content[i].t = "var" /\ content[i].name = n
                                /\ \A j \in (i + 1)..Len(content) :
                                     ~(content[j].t = "var" /\ content[j].name = n)].x,
                      data)
               ELSE data[n]]]

extractVariables(content, data) == ExtractVarsFrom(content, 1, data, <<>>)

RECURSIVE TrimLeft(_)
TrimLeft(txt) == IF txt # <<>> /\ IsSpace(txt[1]) THEN TrimLeft(Tail(txt)) ELSE txt

RECURSIVE TrimRight(_)
TrimRight(txt) ==
  IF txt # <<>> /\ IsSpace(txt[Len(txt)]) THEN TrimRight(SubSeq(txt, 1, Len(txt) - 1)) ELSE txt

\* What \s*([\s\S]*?)\s* captures of a branch.
Trim(txt) == TrimRight(TrimLeft(txt))

\* A replacement that takes the first branch whatever the condition is.
FirstBranch(tok, ifBlock, elseContent, data) == [val |-> TRUE, txt |-> ifBlock]

\* The replacement of one matched conditional (lines 249 to 251): the condition
\* is evaluated against the data, and one branch is the result.
Branch(tok, ifBlock, elseContent, data) ==
  LET Pick(val) == [val |-> val, txt |-> IF val THEN ifBlock ELSE elseContent]
  IN Pick(Truthy(evaluateExpression(tok.x, data)))

RECURSIVE CondFrom(_, _, _)
\* processConditionals: an if matches up to the first else or endif after it, an
\* else up to the first endif after that; a match is replaced by one branch and
\* the scan goes on after its endif.  evals lists the conditions evaluated: the
\* place of each if in the text scanned, and what its condition came to.
CondFrom(txt, i, data) ==
  IF i > Len(txt) THEN [txt |-> <<>>, evals |-> <<>>]
  ELSE LET p == FirstOf(txt, {"else", "endif"}, i + 1)
           q == IF p > 0 /\ txt[p].t = "else" THEN FirstOf(txt, {"endif"}, p + 1) ELSE p
           Replaced(b, rest) ==
             [txt |-> b.txt \o rest.txt,
              evals |-> <<[at |-> i, val |-> b.val]>> \o rest.evals]
           Kept(rest) == [txt |-> <<txt[i]>> \o rest.txt, evals |-> rest.evals]
       IN IF txt[i].t = "if" /\ q > 0
          THEN Replaced(Branch(txt[i], Trim(SubSeq(txt, i + 1, p - 1)),
                               IF q > p THEN Trim(SubSeq(txt, p + 1, q - 1)) ELSE <<>>,
                               data),
                        CondFrom(txt, q + 1, data))
          ELSE Kept(CondFrom(txt, i + 1, data))

processConditionals(content, data) == CondFrom(content, 1, data).txt

RECURSIVE EntriesOf(_, _)
\* Object.entries of a list: the indices as keys.
EntriesOf(items, i) ==
  IF i > Len(items) THEN <<>>
  ELSE <<[key |-> Str(<<Lit(ToString(i - 1))>>), val |-> items[i]]>> \o EntriesOf(items, i + 1)

RECURSIVE PairsOf(_, _)
PairsOf(obj, i) ==
  IF i > Len(obj.keys) THEN <<>>
  ELSE <<[key |-> Str(<<Lit(obj.keys[i])>>), val |-> obj.vals[i]]>> \o PairsOf(obj, i + 1)

\* Object.entries(list) of the value a loop source resolved to.
Entries(v) ==
  CASE v.k = "obj" -> PairsOf(v, 1)
    [] v.k = "list" -> EntriesOf(v.items, 1)
    [] v.k = "str" -> EntriesOf([i \in 1..Len(v.txt) |-> Str(<<v.txt[i]>>)], 1)
    [] OTHER -> <<>>

\* A binding that binds nothing.
BindNothing(data, name, v) == data

Bind(data, name, v) == IF name \in Keys THEN [data EXCEPT ![name] = v] ELSE data

RECURSIVE EachItemComma(_, _, _, _, _)
\* A join that puts a comma between the copies, as join() without an argument does.
EachItemComma(items, i, tok, body, env) ==
  IF i > Len(items) THEN Ok(<<>>)
  ELSE Then(interpolateVariables(body, Bind(env.data, tok.item, items[i]), env.plugins),
            Then(Ok(IF i < Len(items) THEN <<Lit(",")>> ELSE <<>>),
                 EachItemComma(items, i + 1, tok, body, env)))

RECURSIVE EachItem(_, _, _, _, _)
\* list.map(item => interpolateVariables(body, {...data, [itemName]: item})).join("")
EachItem(items, i, tok, body, env) ==
  IF i > Len(items) THEN Ok(<<>>)
  ELSE Then(interpolateVariables(body, Bind(env.data, tok.item, items[i]), env.plugins),
            EachItem(items, i + 1, tok, body, env))

RECURSIVE EachEntry(_, _, _, _, _)
EachEntry(entries, i, tok, body, env) ==
  IF i > Len(entries) THEN Ok(<<>>)
  ELSE Then(interpolateVariables(body,
              Bind(Bind(env.data, tok.key, entries[i].key), tok.val, entries[i].val),
              env.plugins),
            EachEntry(entries, i + 1, tok, body, env))

\* The replacement of one matched loop: the source is looked up as a variable,
\* a falsy value counts as []; the item form calls list.map, which only a list has.
LoopBody(tok, body, env) ==
  LET OrEmpty(found) == IF Truthy(found) THEN found ELSE List(<<>>)
      Mapped(list) ==
        IF tok.t = "forkv" THEN EachEntry(Entries(list), 1, tok, body, env)
        ELSE IF list.k = "list" THEN EachItem(list.items, 1, tok, body, env)
        ELSE NotAFunction
  IN Mapped(OrEmpty(resolveVariable(tok.list, env.data)))

RECURSIVE LoopsFrom(_, _, _)
\* processLoops: a for matches up to the first endfor after it.
LoopsFrom(txt, i, env) ==
  IF i > Len(txt) THEN Ok(<<>>)
  ELSE LET j == FirstOf(txt, {"endfor"}, i + 1)
       IN IF txt[i].t \in {"for", "forkv"} /\ j > 0
          THEN Then(LoopBody(txt[i], SubSeq(txt, i + 1, j - 1), env),
                    LoopsFrom(txt, j + 1, env))
          ELSE Then(Ok(<<txt[i]>>), LoopsFrom(txt, i + 1, env))

processLoops(content, data, plugins) ==
  LoopsFrom(content, 1, [data |-> data, plugins |-> plugins])

\* processOperations: var, then if, then for.  The data it returns is the data
\* object after the var directives, whether or not a loop throws.
processOperations(content, data, plugins) ==
  LET Rest(vars) ==
        [res |-> processLoops(processConditionals(vars.txt, vars.data), vars.data, plugins),
         data |-> vars.data]
  IN Rest(extractVariables(content, data))

\* The tail of render, after the last file is read: lines 54 to 58.
Finish(content, data, plugins) ==
  LET Stripped(text) == IF text.ok THEN Ok(removeComments(text.txt)) ELSE text
      Interpolated(ops) ==
        [res |-> Stripped(IF ops.res.ok
                          THEN interpolateVariables(ops.res.txt, ops.data, plugins)
                          ELSE ops.res),
         data |-> ops.data]
  IN Interpolated(processOperations(content, data, plugins))

(***************************************************************************)
(* Paths.  A view name and a directory are sequences of segments (the text *)
(* between slashes); a segment written *name* is a module tag.  A file     *)
(* path is its segments and its extension.                                 *)
(***************************************************************************)
Seg(n) == [n |-> n, star |-> FALSE]
StarSeg(n) == [n |-> n, star |-> TRUE]
Wildcard == Seg("**")
FilePath(segs, ext) == [segs |-> segs, ext |-> ext]
Dirname(path) == SubSeq(path.segs, 1, Len(path.segs) - 1)

\* The module names of the model; the second holds a character \w does not match.
ModuleNames == {"admin", "user-profile"}

\* templateName.startsWith("*")
StartsWithStar(view) == view # <<>> /\ view[1].star

\* templateName.match(/^\*(\w+)\*\/(.*)$/)
TagMatches(view) == Len(view) >= 2 /\ view[1].star /\ view[1].n # "user-profile"

\* Lines 36 to 39 of render, and 84 to 87 of ResponseWrapper.render.
WithModule(currentModule, view) ==
  IF currentModule # "" /\ ~StartsWithStar(view)
  THEN <<StarSeg(currentModule)>> \o view
  ELSE view

\* path.join(base, templateName, defaultViewName + ext) or
\* path.join(base, templateName + ext), made absolute.
JoinView(cfg, base, viewName) ==
  FilePath(base \o viewName \o (IF cfg.viewName # "" THEN <<Seg(cfg.viewName)>> ELSE <<>>),
           cfg.ext)

\* resolveViewPath, up to the existence check.
resolveViewPath(cfg, templateName) == JoinView(cfg, cfg.views, templateName)

\* this.viewsPath.replace("**", moduleOverride): the first wildcard segment.
ReplaceWildcard(views, moduleOverride) ==
  LET i == IndexOf(views, Wildcard, 1)
  IN IF i = 0 THEN views ELSE [views EXCEPT ![i] = Seg(moduleOverride)]

\* The module of a render in module mode: the tag, else the marker ("" is null).
ModuleOverride(currentModule, templateName) ==
  IF TagMatches(templateName) THEN templateName[1].n ELSE currentModule

\* resolveViewPathWithModules, up to the existence check.
resolveViewPathWithModules(cfg, currentModule, templateName) ==
  LET moduleOverride == ModuleOverride(currentModule, templateName)
      viewName == IF TagMatches(templateName) THEN Tail(templateName) ELSE templateName
  IN JoinView(cfg, ReplaceWildcard(cfg.views, moduleOverride), viewName)

\* viewFilePathResolver, up to the existence check.
viewFilePathResolver(cfg, currentModule, templateName) ==
  IF cfg.useModules
  THEN resolveViewPathWithModules(cfg, currentModule, templateName)
  ELSE resolveViewPath(cfg, templateName)

\* if (!moduleOverride) throw new Error("View path must include a module.")
MissingModule(cfg, currentModule, templateName) ==
  cfg.useModules /\ ModuleOverride(currentModule, templateName) = ""

(***************************************************************************)
(* The file system: the same files for every behaviour.  Each view exists  *)
(* under the flat views root and under the pages directory of each module, *)
(* as <name>.html and as <name>/page.html; every directory that holds a    *)
(* view holds includes/footer.html.                                        *)
(***************************************************************************)
Html == ".html"
ViewsRoot == <<Seg("views")>>
ModulesRoot == <<Seg("modules"), Wildcard, Seg("pages")>>
LayoutsPath == <<Seg("layouts")>>
PartialsPath == <<Seg("partials")>>
Footer == <<Seg("includes"), Seg("footer")>>

ViewNames ==
  {"hello", "setvar", "page", "boom", "badloop", "nolayout", "nopartial", "noinclude",
   "inc", "nested", "override", "emptybody", "blocksonly", "usectl",
   "locals"}

New == Str(<<Lit("new")>>)

ViewText(name) ==
  CASE name = "hello" -> <<Lit("Hello"), Ws, Esc(Path(<<"x">>)), Hash, Lit("note")>>
    [] name = "setvar" -> <<Partial("show", NoParams), Var("x", Const(New))>>
    [] name = "page" ->
         <<Layout("base"), Nl, Block("content"), Lit("Hello"), EndBlock, Nl>>
    [] name = "boom" -> <<Lit("a"), Esc(Call("boom", <<>>))>>
    [] name = "badloop" -> <<For("item", Path(<<"x">>)), Esc(Path(<<"item">>)), EndFor>>
    [] name = "nolayout" -> <<Layout("invalid")>>
    [] name = "nopartial" -> <<Lit("a"), Partial("missing", NoParams)>>
    [] name = "noinclude" -> <<Lit("a"), Include(<<Seg("missing")>>, NoParams)>>
    [] name = "nested" -> <<Layout("outer"), Block("content"), Lit("Hello"), EndBlock>>
    [] name = "override" ->
         <<Partial("show", Const(Obj(<<"x">>, <<Str(<<Lit("inline")>>)>>))),
           Include(Footer, Const(Obj(<<"y">>, <<Str(<<Lit("inline")>>)>>))),
           Esc(Path(<<"x">>))>>
    [] name = "emptybody" ->
         <<Layout("base"), Block("body"), EndBlock, Block("content"), Lit("Hello"),
           EndBlock, Lit("rest")>>
    [] name = "blocksonly" ->
         <<Lit("a"), Block("content"), Lit("hidden"), EndBlock, Ws, Block("body"),
           Esc(Path(<<"x">>)), EndBlock, Lit("b")>>
    [] name = "usectl" ->
         <<Partial("ctl", NoParams), Lit("|"),
           Include(<<Seg("includes"), Seg("ctl")>>, NoParams), Lit("|"),
           Esc(Path(<<"x">>))>>
    [] name = "locals" ->
         <<Partial("show", Const(Obj(<<"x", "item">>, <<Str(<<Lit("inline")>>), Str(<<Lit("inline")>>)>>))),
           For("item", Path(<<"xs">>)), Esc(Path(<<"item">>)), EndFor,
           Esc(Path(<<"item">>)), Lit("|"),
           Include(Footer, Const(Obj(<<"y">>, <<Str(<<Lit("inline")>>)>>))),
           Esc(Path(<<"y">>)), Esc(Path(<<"x">>))>>
    [] name = "inc" ->
         <<Include(Footer, Const(Obj(<<"y">>, <<Str(<<Lit("inline")>>)>>))),
           Raw(Path(<<"y">>))>>
    [] OTHER -> <<>>

ViewFiles ==
  {[path |-> FilePath(d \o <<Seg(n)>> \o t, Html), text |-> ViewText(n)] :
     d \in {ViewsRoot} \cup {<<Seg("modules"), Seg(m), Seg("pages")>> : m \in ModuleNames},
     n \in ViewNames, t \in {<<>>, <<Seg("page")>>}}

\* The fragment ctl (a partial, and an include of every directory) holds every
\* kind of directive a fragment is not to execute, and two interpolations.
Files ==
  LET Ctl == <<Var("x", Const(New)), If(Path(<<"flag">>)), Lit("then"), Else, Lit("else"),
               EndIf, For("item", Path(<<"xs">>)), Lit("i"), EndFor,
               Partial("show", NoParams), Include(Footer, NoParams),
               Esc(Path(<<"x">>)), Raw(Path(<<"x">>))>>
  IN ViewFiles
     \cup {[path |-> FilePath(Dirname(f.path) \o Footer, Html),
            text |-> <<Lit("<footer>"), Esc(Path(<<"x">>)), Esc(Path(<<"y">>)),
                       Lit("</footer>")>>] :
             f \in ViewFiles}
     \cup {[path |-> FilePath(Dirname(f.path) \o <<Seg("includes"), Seg("ctl")>>, Html),
            text |-> Ctl] :
             f \in ViewFiles}
     \cup {[path |-> FilePath(LayoutsPath \o <<Seg("base")>>, Html),
            text |-> <<Lit("<html>"), Define("content"), Define("body"), Lit("</html>")>>],
           [path |-> FilePath(LayoutsPath \o <<Seg("outer")>>, Html),
            text |-> <<Layout("base"), Lit("<main>"), Define("content"), Define("toString"),
                       Define("none"), Lit("</main>")>>],
           [path |-> FilePath(PartialsPath \o <<Seg("show")>>, Html),
            text |-> <<Lit("["), Esc(Path(<<"x">>)), Lit("]")>>],
           [path |-> FilePath(PartialsPath \o <<Seg("ctl")>>, Html), text |-> Ctl]}

\* A read that reports a missing file as the resolver does, with its path.
readFileOrNotFound(path) ==
  IF \E f \in Files : f.path = path
  THEN Ok((CHOOSE f \in Files : f.path = path).text)
  ELSE Fail("No files found: ", path)

\* Bun.file(absolutePath).exists()
Exists(path) == \E f \in Files : f.path = path

\* readFile: the file's text, or the one message every failed read gets.
readFile(path) ==
  IF \E f \in Files : f.path = path
  THEN Ok((CHOOSE f \in Files : f.path = path).text)
  ELSE Fail("Error reading file.", NoPath)

(***************************************************************************)
(* One call of render, cut at its awaits.  pc names the await the call is  *)
(* suspended at: "exists" (the existence check of the view file),          *)
(* "readView", "readLayout", "readPartial", "readInclude"; "done" when it  *)
(* has returned or thrown.  Each operator below is the code that runs      *)
(* between two awaits; it yields the call's record and the data object.    *)
(* reads lists the files the call has asked to read, in order.             *)
(***************************************************************************)
Idle ==
  [pc |-> "idle", view |-> <<>>, ref |-> "", arg |-> EmptyData, marker |-> "",
   path |-> NoPath, content |-> <<>>, layout |-> "", blocks |-> NoBlocks,
   todo |-> <<>>, params |-> Null, out |-> Fail("", NoPath), reads |-> <<>>,
   via |-> "", prior |-> {}]

\* The call has returned res or thrown it; what it no longer needs is dropped.
\* renderTemplate catches whatever is thrown and throws its own error (line 90).
Settle(r, res) ==
  [r EXCEPT !.pc = "done",
            !.out = IF r.via = "template" /\ ~res.ok
                    THEN Fail("Error rendering template.", NoPath)
                    ELSE res,
            !.content = <<>>, !.blocks = NoBlocks, !.todo = <<>>, !.params = Null]

\* Lines 54 to 58: no file is left to read.
Complete(r, content, data, plugins) ==
  LET Settled(fin) == [r |-> Settle(r, fin.res), data |-> fin.data]
  IN Settled(Finish(content, data, plugins))

\* processInclude up to its first read.
AfterPartials(r, cfg, content, data, plugins) ==
  LET matches == Matches(content, "include")
  IN IF matches = <<>> THEN Complete(r, content, data, plugins)
     ELSE [r |-> [r EXCEPT !.pc = "readInclude", !.content = content, !.todo = matches,
                           !.params = FragmentParams(matches[1], data)],
           data |-> data]

\* A variant that goes to the includes with the partials not composed.
IncludesFirst(r, cfg, content, data, plugins) ==
  AfterPartials(r, cfg, content, data, plugins)

\* processPartials up to its first read.
AfterLayout(r, cfg, content, data, plugins) ==
  LET matches == Matches(content, "partial")
  IN IF matches = <<>> THEN AfterPartials(r, cfg, content, data, plugins)
     ELSE [r |-> [r EXCEPT !.pc = "readPartial", !.content = content, !.todo = matches,
                           !.params = FragmentParams(matches[1], data)],
           data |-> data]

\* render up to its first await: the marker is read, the path is built.  The
\* record keeps the arguments of the call: the view name, the data object (ref)
\* and what it held (arg), the marker at the call, the caller (via) and the calls
\* that had ended before this one began (prior).
Begin(cfg, currentModule, view, call, data) ==
  LET resolvedView == WithModule(currentModule, view)
      r == [Idle EXCEPT !.view = view, !.ref = call.ref, !.arg = data,
                        !.marker = currentModule, !.via = call.via, !.prior = call.prior]
  IN IF MissingModule(cfg, currentModule, resolvedView)
     THEN Settle(r, Fail("View path must include a module.", NoPath))
     ELSE [r EXCEPT !.pc = "exists",
                    !.path = viewFilePathResolver(cfg, currentModule, resolvedView)]

\* A resolver that returns the path without the existence check.
Unchecked(r) == [r EXCEPT !.pc = "readView"]

\* The existence check answers.
Checked(r) ==
  IF Exists(r.path) THEN [r EXCEPT !.pc = "readView"]
  ELSE Settle(r, Fail("No files found: ", r.path))

\* The view file is read: layout name, blocks, and on to the layout or the partials.
ViewRead(r, cfg, data, plugins) ==
  LET Parsed(r1, layoutName, eb) ==
        IF layoutName # ""
        THEN [r |-> [r1 EXCEPT !.pc = "readLayout", !.layout = layoutName,
                               !.blocks = WithBody(eb.blocks, eb.content)],
              data |-> data]
        ELSE AfterLayout(r1, cfg, eb.content, data, plugins)
      Read(r1, file) ==
        IF ~file.ok THEN [r |-> Settle(r1, file), data |-> data]
        ELSE Parsed(r1, extractLayout(file.txt), extractBlocks(file.txt))
  IN Read([r EXCEPT !.reads = Append(@, r.path)], readFile(r.path))

\* applyLayout: the layout file is read and the placeholders are filled.
LayoutRead(r, cfg, data, plugins) ==
  LET Read(r1, file) ==
        IF ~file.ok THEN [r |-> Settle(r1, file), data |-> data]
        ELSE AfterLayout(r1, cfg, ApplyFrom(file.txt, 1, r.blocks), data, plugins)
      At(path) == Read([r EXCEPT !.reads = Append(@, path)], readFile(path))
  IN At(FilePath(cfg.layouts \o <<Seg(r.layout)>>, cfg.ext))

\* The file of the fragment at the head of todo is read.
FragmentRead(r, cfg, path, data, plugins) ==
  LET Go(r1, content, rest) ==
        IF rest # <<>>
        THEN [r |-> [r1 EXCEPT !.params = FragmentParams(rest[1], data)], data |-> data]
        ELSE IF r.pc = "readPartial" THEN AfterPartials(r1, cfg, content, data, plugins)
        ELSE Complete(r1, content, data, plugins)
      Inserted(r0, ins) ==
        IF ~ins.ok THEN [r |-> Settle(r0, ins), data |-> data]
        ELSE Go([r0 EXCEPT !.content = ins.txt, !.todo = Tail(r.todo)], ins.txt,
                Tail(r.todo))
      Read(r0, file) ==
        IF ~file.ok THEN [r |-> Settle(r0, file), data |-> data]
        ELSE Inserted(r0, InsertFragment(r.content, Head(r.todo), file.txt, data,
                                         r.params, plugins))
  IN Read([r EXCEPT !.reads = Append(@, path)], readFile(path))

PartialRead(r, cfg, data, plugins) ==
  FragmentRead(r, cfg, FilePath(cfg.partials \o <<Seg(Head(r.todo).name)>>, cfg.ext),
               data, plugins)

IncludeRead(r, cfg, data, plugins) ==
  FragmentRead(r, cfg, FilePath(Dirname(r.path) \o Head(r.todo).path, cfg.ext),
               data, plugins)

RECURSIVE RunFrom(_, _, _, _)
\* A call taken from one await to the next with no other call in between, to
\* the result it returns or throws.
RunFrom(r, cfg, data, plugins) ==
  LET Go(step) == RunFrom(step.r, cfg, step.data, plugins)
  IN CASE r.pc = "exists" -> RunFrom(Checked(r), cfg, data, plugins)
       [] r.pc = "readView" -> Go(ViewRead(r, cfg, data, plugins))
       [] r.pc = "readLayout" -> Go(LayoutRead(r, cfg, data, plugins))
       [] r.pc = "readPartial" -> Go(PartialRead(r, cfg, data, plugins))
       [] r.pc = "readInclude" -> Go(IncludeRead(r, cfg, data, plugins))
       [] OTHER -> r.out

\* render(view, data) run alone on an engine whose marker is currentModule.
RunAlone(cfg, currentModule, view, data, plugins) ==
  RunFrom(Begin(cfg, currentModule, view, [ref |-> "", via |-> "engine", prior |-> {}],
                data),
          cfg, data, plugins)

(***************************************************************************)
(* The state.                                                              *)
(*   cfg            the engine's options (set by the constructor)          *)
(*   plugins        the names registered with registerPlugin               *)
(*   currentModule  the engine's current-module marker, "" for null        *)
(*   objs           the data objects of the callers, by name               *)
(*   rs             the calls of render, by slot                           *)
(*   engineSet      whether Application holds a template engine            *)
(*   res            the ResponseWrapper: body, Content-Type, status, module*)
(*   resOut         how the last ResponseWrapper.render ended              *)
(*   tpl, text, ctx, stage, evals   one text (tpl) taken through the       *)
(*                  stages of processOperations and the tail of render,    *)
(*                  one stage per step: the text so far, the data context, *)
(*                  the stage to come, the conditions evaluated            *)
(***************************************************************************)
VARIABLES cfg, plugins, currentModule, objs, rs, engineSet, res, resOut,
          tpl, text, ctx, stage, evals

engineVars == <<cfg, plugins, currentModule, objs, rs>>
responseVars == <<engineSet, res, resOut>>
stageVars == <<tpl, text, ctx, stage, evals>>
vars == <<cfg, plugins, currentModule, objs, rs, engineSet, res, resOut,
          tpl, text, ctx, stage, evals>>

Slots == {"r1", "r2"}
Shared == "shared"

Config(useModules, views, viewName) ==
  [useModules |-> useModules, views |-> views, viewName |-> viewName,
   layouts |-> LayoutsPath, partials |-> PartialsPath, ext |-> Html]

\* The constructions the model starts from: flat or module-structured, each
\* with and without a default view name.
Configs ==
  {Config(FALSE, ViewsRoot, ""), Config(FALSE, ViewsRoot, "page"),
   Config(TRUE, ModulesRoot, ""), Config(TRUE, ModulesRoot, "page")}

Old == Str(<<Lit("old")>>)

\* What the shared data object holds at the start, and what a caller's own does.
SharedData ==
  [EmptyData EXCEPT !["x"] = Old, !["xs"] = List(<<Bool(TRUE), Bool(FALSE)>>)]
OwnData == [EmptyData EXCEPT !["x"] = Str(<<Lit("<"), Lit("script"), Lit(">")>>)]

\* The view names the first caller passes: each view and a missing one without
\* a tag, and one view tagged with each module.  The second caller passes two.
CallViews(id) ==
  IF id = "r1"
  THEN {<<Seg(n)>> : n \in ViewNames \cup {"missing"}}
       \cup {<<StarSeg(m), Seg("hello")>> : m \in ModuleNames}
  ELSE {<<Seg("hello")>>, <<Seg("setvar")>>}

NoResOut == [ok |-> FALSE, m |-> "", inner |-> "", path |-> NoPath]
NewResponse == [body |-> Null, type |-> "", status |-> 200, module |-> ""]

Init ==
  /\ cfg \in Configs
  /\ plugins = {"upper", "boom"}
  /\ currentModule = ""
  /\ objs = [o \in Slots \cup {Shared} |-> IF o = Shared THEN SharedData ELSE OwnData]
  /\ rs = [id \in Slots |-> Idle]
  /\ engineSet = FALSE
  /\ res = NewResponse
  /\ resOut = NoResOut
  /\ tpl = <<>>
  /\ text = Ok(<<>>)
  /\ ctx = EmptyData
  /\ stage = "off"
  /\ evals = <<>>

(***************************************************************************)
(* ResponseWrapper.render, after the engine's render has settled.          *)
(***************************************************************************)
\* A wrapper that sets the header and the body before it looks at the outcome.
DeliverFirst(response, out) ==
  [response EXCEPT !.type = "text/html",
                   !.body = IF out.ok THEN Str(out.txt) ELSE Str(<<>>)]

\* Lines 92 and 93: only a render that returned sets the header and the body.
Deliver(response, out) ==
  IF out.ok THEN [response EXCEPT !.type = "text/html", !.body = Str(out.txt)]
  ELSE response

\* Line 95: what render threw is wrapped.
Wrapped(out) ==
  IF out.ok THEN [ok |-> TRUE, m |-> "", inner |-> "", path |-> NoPath]
  ELSE [ok |-> FALSE, m |-> "Error rendering template: ", inner |-> out.m, path |-> out.path]

\* A call has moved to step.r: the data object is written back and, when the
\* call came from the response wrapper and has settled, the wrapper goes on.
Moved(id, step) ==
  /\ rs' = [rs EXCEPT ![id] = step.r]
  /\ objs' = [objs EXCEPT ![step.r.ref] = step.data]
  /\ IF step.r.pc = "done" /\ step.r.via = "response"
     THEN res' = Deliver(res, step.r.out) /\ resOut' = Wrapped(step.r.out)
     ELSE UNCHANGED <<res, resOut>>
  /\ UNCHANGED <<cfg, plugins, currentModule, engineSet>>
  /\ UNCHANGED stageVars

(***************************************************************************)
(* The engine's operations.                                                *)
(***************************************************************************)
\* module(moduleName)
Module(m) ==
  /\ currentModule' = m
  /\ UNCHANGED <<cfg, plugins, objs, rs>>
  /\ UNCHANGED responseVars
  /\ UNCHANGED stageVars

\* engine.render(view, data), called with the shared data object or with the
\* caller's own, up to its first await.
Render(id, view, ref) ==
  /\ rs[id].pc = "idle"
  /\ id = "r2" => rs["r1"].pc # "idle"
  /\ Moved(id, [r |-> Begin(cfg, currentModule, view,
                            [ref |-> ref, via |-> "engine", prior |-> {s \in Slots : rs[s].pc = "done"}], objs[ref]),
                data |-> objs[ref]])

\* An existence check that resolves the path again, with the marker of its time.
CheckExistsLate(id) ==
  /\ rs[id].pc = "exists"
  /\ Moved(id, [r |-> Checked([rs[id] EXCEPT
                                !.path = viewFilePathResolver(
                                           cfg, currentModule,
                                           WithModule(currentModule, rs[id].view))]),
                data |-> objs[rs[id].ref]])

CheckExists(id) ==
  /\ rs[id].pc = "exists"
  /\ Moved(id, [r |-> Checked(rs[id]), data |-> objs[rs[id].ref]])

ReadView(id) ==
  /\ rs[id].pc = "readView"
  /\ Moved(id, ViewRead(rs[id], cfg, objs[rs[id].ref], plugins))

ReadLayout(id) ==
  /\ rs[id].pc = "readLayout"
  /\ Moved(id, LayoutRead(rs[id], cfg, objs[rs[id].ref], plugins))

ReadPartial(id) ==
  /\ rs[id].pc = "readPartial"
  /\ Moved(id, PartialRead(rs[id], cfg, objs[rs[id].ref], plugins))

ReadInclude(id) ==
  /\ rs[id].pc = "readInclude"
  /\ Moved(id, IncludeRead(rs[id], cfg, objs[rs[id].ref], plugins))

Next ==
  \/ \E m \in ModuleNames : Module(m)
  \/ \E id \in Slots : \E view \in CallViews(id), ref \in {Shared, id} : Render(id, view, ref)
  \/ \E id \in Slots : CheckExists(id)
  \/ \E id \in Slots : ReadView(id)
  \/ \E id \in Slots : ReadLayout(id)
  \/ \E id \in Slots : ReadPartial(id)
  \/ \E id \in Slots : ReadInclude(id)

Spec == Init /\ [][Next]_vars

(***************************************************************************)
(* The response wrapper: one ResponseWrapper and the engine behind it.     *)
(***************************************************************************)
NoEngine ==
  [ok |-> FALSE, m |-> "No template engine configured.", inner |-> "", path |-> NoPath]

\* engine.configure(app): Application holds the engine from now on.
Configure ==
  /\ ~engineSet
  /\ engineSet' = TRUE
  /\ UNCHANGED <<res, resOut>>
  /\ UNCHANGED engineVars
  /\ UNCHANGED stageVars

\* ResponseWrapper.module(moduleName)
ResModule(m) ==
  /\ resOut = NoResOut /\ rs["r1"].pc = "idle"
  /\ res' = [res EXCEPT !.module = m]
  /\ UNCHANGED <<engineSet, resOut>>
  /\ UNCHANGED engineVars
  /\ UNCHANGED stageVars

\* ResponseWrapper.status(value)
ResStatus(value) ==
  /\ resOut = NoResOut /\ rs["r1"].pc = "idle"
  /\ res' = [res EXCEPT !.status = value]
  /\ UNCHANGED <<engineSet, resOut>>
  /\ UNCHANGED engineVars
  /\ UNCHANGED stageVars

\* ResponseWrapper.json({})
ResJson ==
  /\ resOut = NoResOut /\ rs["r1"].pc = "idle"
  /\ res' = [res EXCEPT !.type = "application/json", !.body = Str(<<Lit("{}")>>)]
  /\ UNCHANGED <<engineSet, resOut>>
  /\ UNCHANGED engineVars
  /\ UNCHANGED stageVars

\* ResponseWrapper.render(view, data) up to the first await of the engine's
\* render, or to the throw of line 81.
ResRender(view) ==
  /\ resOut = NoResOut /\ rs["r1"].pc = "idle"
  /\ IF engineSet
     THEN Moved("r1", [r |-> Begin(cfg, currentModule, WithModule(res.module, view),
                                   [ref |-> Shared, via |-> "response", prior |-> {}],
                                   objs[Shared]),
                       data |-> objs[Shared]])
     ELSE /\ resOut' = NoEngine
          /\ UNCHANGED <<engineSet, res>>
          /\ UNCHANGED engineVars
          /\ UNCHANGED stageVars

NextResponse ==
  \/ Configure
  \/ \E m \in ModuleNames : Module(m)
  \/ \E m \in ModuleNames : ResModule(m)
  \/ ResStatus(404)
  \/ ResJson
  \/ \E view \in {<<Seg(n)>> : n \in {"hello", "page", "setvar", "inc", "boom",
                                      "nolayout", "missing"}}
                \cup {<<StarSeg("admin"), Seg("hello")>>} : ResRender(view)
  \/ CheckExists("r1")
  \/ ReadView("r1")
  \/ ReadLayout("r1")
  \/ ReadPartial("r1")
  \/ ReadInclude("r1")

SpecResponse == Init /\ [][NextResponse]_vars

(***************************************************************************)
(* renderTemplate: the pipeline of render on a file named by its path.     *)
(***************************************************************************)
\* A renderTemplate that resolves its argument as render resolves a view name.
RenderTemplateResolved(id, viewPath, ref) ==
  /\ rs[id].pc = "idle"
  /\ Moved(id, [r |-> [Idle EXCEPT !.pc = "exists", !.view = viewPath,
                                   !.path = JoinView(cfg, <<>>, viewPath),
                                   !.ref = ref, !.arg = objs[ref], !.via = "template"],
                data |-> objs[ref]])

\* renderTemplate(viewPath, data) up to its first await: the path is viewPath and
\* the extension under the working directory; fs.access answers at the next step.
RenderTemplate(id, viewPath, ref) ==
  /\ rs[id].pc = "idle"
  /\ Moved(id, [r |-> [Idle EXCEPT !.pc = "exists", !.view = viewPath,
                                   !.path = FilePath(viewPath, cfg.ext),
                                   !.ref = ref, !.arg = objs[ref], !.via = "template"],
                data |-> objs[ref]])

NextTemplate ==
  \/ \E m \in ModuleNames : Module(m)
  \/ \E viewPath \in {f.path.segs : f \in ViewFiles} \cup {ViewsRoot \o <<Seg("missing")>>},
        ref \in {Shared, "r1"} : RenderTemplate("r1", viewPath, ref)
  \/ CheckExists("r1")
  \/ ReadView("r1")
  \/ ReadLayout("r1")
  \/ ReadPartial("r1")
  \/ ReadInclude("r1")

SpecTemplate == Init /\ [][NextTemplate]_vars

(***************************************************************************)
(* The stages of lines 54 to 56, one per step, on a text that needs no     *)
(* file: processOperations (var, if, for), interpolateVariables,           *)
(* removeComments.                                                         *)
(***************************************************************************)
MaxBody == 3

RECURSIVE Bodies(_)
\* The texts of n tokens.
Bodies(n) ==
  IF n = 0 THEN {<<>>}
  ELSE {Append(b, tok) :
          b \in Bodies(n - 1),
          tok \in {If(Path(<<"item">>)), If(Path(<<"flag">>)), Else, EndIf,
                   Esc(Path(<<"item">>)), Ws, Var("flag", Const(Bool(TRUE)))}}

\* Each text of at most MaxBody tokens, as it is and as the body of a loop.
StageTemplates ==
  UNION {Bodies(n) \cup {<<For("item", Path(<<"xs">>))>> \o b \o <<EndFor>> : b \in Bodies(n)} :
           n \in 1..MaxBody}

InitStages ==
  /\ cfg = Config(FALSE, ViewsRoot, "")
  /\ plugins = {"upper", "boom"}
  /\ currentModule = ""
  /\ objs = [o \in Slots \cup {Shared} |-> IF o = Shared THEN SharedData ELSE OwnData]
  /\ rs = [id \in Slots |-> Idle]
  /\ engineSet = FALSE
  /\ res = NewResponse
  /\ resOut = NoResOut
  /\ tpl \in StageTemplates
  /\ text = Ok(tpl)
  /\ ctx \in {[SharedData EXCEPT !["flag"] = v] : v \in {Undef, Bool(FALSE)}}
  /\ stage = "var"
  /\ evals = <<>>

\* A stage has run: the text, or what the stage threw, and the stage to come.
Staged(result, next) ==
  /\ text' = result
  /\ stage' = IF result.ok THEN next ELSE "end"
  /\ UNCHANGED tpl
  /\ UNCHANGED engineVars
  /\ UNCHANGED responseVars

\* content = this.extractVariables(content, data)
StageVar ==
  /\ stage = "var"
  /\ Staged(Ok(extractVariables(text.txt, ctx).txt), "if")
  /\ ctx' = extractVariables(text.txt, ctx).data
  /\ UNCHANGED evals

\* content = this.processConditionals(content, data)
StageIf ==
  /\ stage = "if"
  /\ Staged(Ok(processConditionals(text.txt, ctx)), "for")
  /\ evals' = CondFrom(text.txt, 1, ctx).evals
  /\ UNCHANGED ctx

\* content = this.processLoops(content, data)
StageFor ==
  /\ stage = "for"
  /\ Staged(processLoops(text.txt, ctx, plugins), "interpolate")
  /\ UNCHANGED <<ctx, evals>>

\* finalContent = this.interpolateVariables(finalContent, data)
StageInterpolate ==
  /\ stage = "interpolate"
  /\ Staged(interpolateVariables(text.txt, ctx, plugins), "comments")
  /\ UNCHANGED <<ctx, evals>>

\* finalContent = this.removeComments(finalContent)
StageComments ==
  /\ stage = "comments"
  /\ Staged(Ok(removeComments(text.txt)), "end")
  /\ UNCHANGED <<ctx, evals>>

NextStages ==
  \/ StageVar
  \/ StageIf
  \/ StageFor
  \/ StageInterpolate
  \/ StageComments

SpecStages == InitStages /\ [][NextStages]_vars

(***************************************************************************)
(* The same stages on chosen texts and data: one case per behaviour of     *)
(* interpolation, escaping, plugins, conditionals and loops.               *)
(***************************************************************************)
\* The longest list a loop of the cases runs over.
MaxItems == 3

\* The texts and data contexts the stages are run on.
ValueCases ==
  LET Chars == {"&", "<", ">", "\"", "'", "BACKTICK", "=", "/", "a"}
      Strings == {<<Lit(a)>> : a \in Chars} \cup {<<Lit(a), Lit(b)>> : a, b \in Chars}
      With(v) == [EmptyData EXCEPT !["x"] = v]
      Items == {Str(<<Lit("A")>>), Str(<<Lit("B")>>), Str(<<Lit("<")>>)}
  IN \* {{ x }}, {{ upper(x) }} and {{ <literal> }} on strings of the eight characters
     {[tpl |-> <<Esc(x)>>, ctx |-> With(Str(txt))] :
        x \in {Path(<<"x">>), Call("upper", <<Path(<<"x">>)>>)}, txt \in Strings}
     \cup {[tpl |-> <<Esc(Path(<<"x">>))>>, ctx |-> With(v)] :
             v \in {Bool(FALSE), List(<<Str(<<Lit("<")>>), Null, Str(<<Lit("&")>>)>>),
                    Obj(<<"y">>, <<Str(<<Lit("<")>>)>>)}}
     \cup {[tpl |-> <<Esc(Const(Str(txt)))>>, ctx |-> EmptyData] :
             txt \in {<<Lit(a)>> : a \in Chars}}
     \* {{{ x }}} on markup, on a value that holds ## and on one that spells {{ y }}
     \cup {[tpl |-> <<Raw(Path(<<"x">>))>>, ctx |-> [With(Str(txt)) EXCEPT !["y"] = Old]] :
             txt \in {<<Lit("<"), Lit("div"), Lit(">")>>,
                      <<Lit("a"), Hash, Lit("b")>>,
                      <<Lit("a"), Esc(Path(<<"y">>))>>}}
     \* for item in xs over the lists of at most MaxItems items, and over no list
     \cup {[tpl |-> <<For("item", Path(<<"xs">>)), Lit("<li>"), Esc(Path(<<"item">>)),
                      Lit("</li>"), EndFor>>,
            ctx |-> [EmptyData EXCEPT !["xs"] = v]] :
             v \in {List(l) : l \in UNION {[1..n -> Items] : n \in 0..MaxItems}}
                   \cup {Undef}}
     \* for [key, item] in m over mappings of at most two entries, and over none
     \cup {[tpl |-> <<[t |-> "forkv", key |-> "key", val |-> "item",
                       list |-> Path(<<"m">>)],
                      Esc(Path(<<"key">>)), Lit(":"), Esc(Path(<<"item">>)), Nl, EndFor>>,
            ctx |-> [EmptyData EXCEPT !["m"] = v]] :
             v \in {Obj(<<"b", "a">>, <<a, b>>) : a, b \in Items}
                   \cup {Obj(<<"b">>, <<a>>) : a \in Items}
                   \cup {Obj(<<>>, <<>>), Undef}}
     \* if (flag) A [else B] endif, the branches with and without space around them
     \cup {[tpl |-> <<If(Path(<<"flag">>))>> \o a \o b \o <<EndIf>>,
            ctx |-> [EmptyData EXCEPT !["flag"] = v]] :
             a \in {<<Lit("Yes")>>, <<Ws, Lit("Yes"), Nl>>},
             b \in {<<>>, <<Else, Lit("No")>>, <<Else, Nl, Lit("No"), Ws>>},
             v \in {Bool(TRUE), Bool(FALSE), Undef}}
     \* upper(arg) in both forms: a variable, an unbound name, a nested call of one
     \* argument and a nested call of two
     \cup {[tpl |-> <<[t |-> k, x |-> Call("upper", <<a>>)]>>,
            ctx |-> [With(Str(<<Lit("test")>>)) EXCEPT !["y"] = Old]] :
             k \in {"esc", "raw"},
             a \in {Path(<<"x">>), Path(<<"m">>), Call("upper", <<Path(<<"x">>)>>),
                    Call("upper", <<Path(<<"x">>), Path(<<"y">>)>>)}}
     \* var directives: two inside a branch, one after it that reads a variable,
     \* then a condition, a loop source and two interpolations that use them
     \cup {[tpl |-> <<Lit("v"), If(Path(<<"flag">>)), Var("x", Const(New)),
                      Var("xs", Const(List(<<New, Old>>))), EndIf, Var("y", e),
                      If(Path(<<"y">>)), Esc(Path(<<"y">>)), Else, Lit("unset"), EndIf,
                      For("item", Path(<<"xs">>)), Esc(Path(<<"item">>)), EndFor,
                      Raw(Path(<<"x">>))>>,
            ctx |-> [With(Old) EXCEPT !["flag"] = v]] :
             e \in {Path(<<"x">>), Path(<<"m">>), Const(Bool(FALSE))},
             v \in {Bool(TRUE), Bool(FALSE)}}
     \* one token whose plugin throws, returns nothing or is not registered
     \cup {[tpl |-> <<[t |-> k, x |-> Call(f, <<Path(<<"x">>)>>)]>>, ctx |-> With(Old)] :
             k \in {"esc", "raw"}, f \in {"boom", "nil", "lower"}}
     \* a comment that holds plain text and a token, one that holds a var
     \* directive, and one that holds an endif inside a conditional
     \cup {[tpl |-> t, ctx |-> [With(Old) EXCEPT !["flag"] = v]] :
             t \in {<<Lit("a"), Hash, Lit("note"), Esc(Path(<<"x">>)), Nl, Esc(Path(<<"x">>))>>,
                    <<Lit("a"), Hash, Var("y", Const(New)), Nl, Esc(Path(<<"y">>))>>,
                    <<If(Path(<<"flag">>)), Lit("yes"), Hash, EndIf, Nl, Lit("more"), EndIf,
                      Lit("z")>>},
             v \in {Bool(TRUE), Bool(FALSE)}}
     \* {{ x }} on a value that holds ##, and a loop over items that spell {{ y }},
     \* hold ## or are plain
     \cup {[tpl |-> <<Esc(Path(<<"x">>))>>,
             ctx |-> With(Str(<<Lit("a"), Hash, Lit("b")>>))]}
     \cup {[tpl |-> <<Lit("v"), For("item", Path(<<"xs">>)), Esc(Path(<<"item">>)), EndFor>>,
            ctx |-> [With(Old) EXCEPT !["y"] = New, !["xs"] = List(<<Str(a), Str(b)>>)]] :
             a, b \in {<<Esc(Path(<<"y">>))>>, <<Lit("p"), Hash>>, <<Lit("<")>>}}

InitValues ==
  /\ cfg = Config(FALSE, ViewsRoot, "")
  /\ plugins = {"upper", "boom", "nil"}
  /\ currentModule = ""
  /\ objs = [o \in Slots \cup {Shared} |-> IF o = Shared THEN SharedData ELSE OwnData]
  /\ rs = [id \in Slots |-> Idle]
  /\ engineSet = FALSE
  /\ res = NewResponse
  /\ resOut = NoResOut
  /\ \E c \in ValueCases : tpl = c.tpl /\ ctx = c.ctx
  /\ text = Ok(tpl)
  /\ stage = "var"
  /\ evals = <<>>

SpecValues == InitValues /\ [][NextStages]_vars

(***************************************************************************)
(* Properties of render (specification Spec).                              *)
(***************************************************************************)
Last(seq) == seq[Len(seq)]

\* The three failures the engine raises for a file or a module it cannot find.
StructuralMessages ==
  {"No files found: ", "View path must include a module.", "Error reading file."}

\* The view name is written *module*/rest.
HasTag(view) == Len(view) >= 2 /\ view[1].star

\* C1: render never mutates the caller's data object: when a call that no other
\* call ran beside has returned or thrown, the object holds what it held at the call.
C1_DataUnchanged ==
  (rs["r1"].pc = "done" /\ rs["r2"].pc = "idle")
    => objs[rs["r1"].ref] = rs["r1"].arg

C1_Mutated ==
  /\ rs["r1"].pc = "done" /\ rs["r2"].pc = "idle"
  /\ rs["r1"].out.ok
  /\ objs[rs["r1"].ref]["x"] = New /\ rs["r1"].arg["x"] = Old

\* C2: under every interleaving of two calls at their awaits, each call returns
\* (or throws) what it does when run alone with the data it was called with,
\* also when both were passed the same object.
C2_AsAlone ==
  \A id \in Slots :
    rs[id].pc = "done"
      => rs[id].out = RunAlone(cfg, rs[id].marker, rs[id].view, rs[id].arg, plugins)

C2_Interfered ==
  /\ rs["r1"].pc = "done" /\ rs["r2"].pc = "done"
  /\ rs["r1"].ref = Shared /\ rs["r2"].ref = Shared
  /\ rs["r2"].prior = {}
  /\ rs["r1"].out.ok
  /\ rs["r1"].out # RunAlone(cfg, rs["r1"].marker, rs["r1"].view, rs["r1"].arg, plugins)

\* C3: two calls, the second begun after the first ended, of the same view with
\* the same data object and the same marker return identical text.
C3_Idempotent ==
  \A a, b \in Slots :
    (/\ rs[a].pc = "done" /\ rs[b].pc = "done"
     /\ a \in rs[b].prior
     /\ rs[a].view = rs[b].view /\ rs[a].ref = rs[b].ref /\ rs[a].marker = rs[b].marker)
      => rs[a].out = rs[b].out

C3_Differ ==
  /\ rs["r1"].pc = "done" /\ rs["r2"].pc = "done"
  /\ "r1" \in rs["r2"].prior
  /\ rs["r1"].view = rs["r2"].view /\ rs["r1"].ref = rs["r2"].ref
  /\ rs["r1"].marker = rs["r2"].marker
  /\ rs["r1"].out.ok /\ rs["r2"].out.ok
  /\ rs["r1"].out.txt # rs["r2"].out.txt

\* C4: a call fails only for a file or a module that is not found: a plugin that
\* throws and a loop source that is no sequence never make render fail.
C4_FailOpen ==
  \A id \in Slots :
    (rs[id].pc = "done" /\ ~rs[id].out.ok) => rs[id].out.m \in StructuralMessages

C4_PluginAborts ==
  \E id \in Slots :
    /\ rs[id].pc = "done"
    /\ rs[id].out = PluginThrew
    /\ \A i \in 1..Len(rs[id].reads) : Exists(rs[id].reads[i])

\* The path of the claims: the root (its wildcard replaced by the module in
\* module mode), the rest of the view name, the default view name if one is
\* configured, and the extension.
ExpectedPath(root, rest) ==
  FilePath(root \o rest \o (IF cfg.viewName # "" THEN <<Seg(cfg.viewName)>> ELSE <<>>),
           cfg.ext)

\* C6: a call whose view file does not exist throws "No files found: " with the
\* path it tried, having read no file and left the data object alone; with no
\* marker and no module mode that path is the views root joined with the view
\* name, the default view name if configured, and the extension.
C6_NotFound ==
  \A id \in Slots :
    /\ (rs[id].pc = "exists" /\ rs[id].via = "engine" /\ ~cfg.useModules /\ rs[id].marker = "")
         => rs[id].path = ExpectedPath(cfg.views, rs[id].view)
    /\ (rs[id].pc = "done" /\ rs[id].path # NoPath /\ ~Exists(rs[id].path))
         => /\ rs[id].out = Fail("No files found: ", rs[id].path)
            /\ rs[id].reads = <<>>
    /\ (rs[id].pc = "done" /\ rs[id].path # NoPath /\ Exists(rs[id].path))
         => rs[id].reads # <<>> /\ rs[id].reads[1] = rs[id].path

C6_Missing ==
  /\ ~cfg.useModules
  /\ rs["r1"].pc = "done" /\ rs["r1"].marker = ""
  /\ rs["r1"].view = <<Seg("missing")>>
  /\ rs["r1"].out = Fail("No files found: ", ExpectedPath(ViewsRoot, <<Seg("missing")>>))
  /\ rs["r1"].reads = <<>>

\* C7 as stated: a layout, partial or include file that does not exist makes the
\* call throw a failure that names the missing file's path.
C7_NamesPath ==
  \A id \in Slots :
    (rs[id].reads # <<>> /\ ~Exists(Last(rs[id].reads)))
      => /\ rs[id].pc = "done"
         /\ rs[id].out = Fail("No files found: ", Last(rs[id].reads))

\* C7: a layout, partial or include file that does not exist makes the call throw
\* at that read (no text is returned); the failure is the generic "Error reading
\* file." and names no path.
C7_ReadFailure ==
  \A id \in Slots :
    /\ (rs[id].reads # <<>> /\ ~Exists(Last(rs[id].reads)))
         => /\ rs[id].pc = "done"
            /\ rs[id].out = Fail("Error reading file.", NoPath)
    /\ (rs[id].pc = "done" /\ rs[id].out.ok)
         => \A i \in 1..Len(rs[id].reads) : Exists(rs[id].reads[i])

C7_MissingLayout ==
  /\ rs["r1"].pc = "done"
  /\ rs["r1"].view = <<Seg("nolayout")>>
  /\ Len(rs["r1"].reads) = 2
  /\ Last(rs["r1"].reads) = FilePath(LayoutsPath \o <<Seg("invalid")>>, Html)
  /\ rs["r1"].out = Fail("Error reading file.", NoPath)

\* C9: in module mode a call whose view name carries a tag, or that found the
\* marker set, does not throw "View path must include a module.".
C9_TagOrMarker ==
  \A id \in Slots :
    (cfg.useModules /\ rs[id].pc = "done" /\ (HasTag(rs[id].view) \/ rs[id].marker # ""))
      => rs[id].out # Fail("View path must include a module.", NoPath)

C9_TaggedYetMissing ==
  /\ cfg.useModules
  /\ rs["r1"].pc = "done" /\ rs["r1"].marker = ""
  /\ rs["r1"].view = <<StarSeg("user-profile"), Seg("hello")>>
  /\ rs["r1"].out = Fail("View path must include a module.", NoPath)
  /\ rs["r1"].reads = <<>>

\* C10: in module mode the module is the tag's when the view name has one and the
\* marker otherwise, and the path tried is the views root with its wildcard
\* replaced by that module, the rest of the view name, the default view name if
\* configured, and the extension.
C10_ModulePath ==
  \A id \in Slots :
    (cfg.useModules /\ rs[id].pc # "idle" /\ rs[id].path # NoPath)
      => rs[id].path =
           IF HasTag(rs[id].view)
           THEN ExpectedPath(ReplaceWildcard(cfg.views, rs[id].view[1].n), Tail(rs[id].view))
           ELSE ExpectedPath(ReplaceWildcard(cfg.views, rs[id].marker), rs[id].view)

C10_MarkerBeatsTag ==
  /\ cfg.useModules
  /\ rs["r1"].marker = "admin"
  /\ rs["r1"].view = <<StarSeg("user-profile"), Seg("hello")>>
  /\ rs["r1"].pc = "done"
  /\ rs["r1"].out.path =
       ExpectedPath(ReplaceWildcard(cfg.views, "admin"), rs["r1"].view)

(***************************************************************************)
(* Properties of ResponseWrapper.render (specification SpecResponse).      *)
(***************************************************************************)
\* C8: when the engine's render throws a failure with message m, the wrapper
\* throws "Error rendering template: " + m and the response keeps its body,
\* status and Content-Type; when it returns, the body becomes the text and the
\* Content-Type text/html, the status staying; with no engine the wrapper throws
\* "No template engine configured." and the response is unchanged.
C8_Wrapping ==
  [][/\ (rs["r1"].pc # "done" /\ rs'["r1"].pc = "done")
          => IF rs'["r1"].out.ok
             THEN /\ res' = [res EXCEPT !.type = "text/html",
                                         !.body = Str(rs'["r1"].out.txt)]
                  /\ resOut'.ok
             ELSE /\ res' = res
                  /\ resOut' = [ok |-> FALSE, m |-> "Error rendering template: ",
                                inner |-> rs'["r1"].out.m, path |-> rs'["r1"].out.path]
     /\ (resOut = NoResOut /\ resOut' # NoResOut /\ ~engineSet)
          => /\ resOut' = NoEngine
             /\ res' = res
             /\ rs' = rs
     /\ (rs["r1"].pc = "idle" /\ rs'["r1"].pc # "idle") => engineSet
    ]_vars

C8_FailedUnchanged ==
  /\ rs["r1"].pc = "done"
  /\ resOut.m = "Error rendering template: " /\ resOut.inner = "Error reading file."
  /\ res.type = "application/json" /\ res.body = Str(<<Lit("{}")>>) /\ res.status = 404

(***************************************************************************)
(* Properties of the stages (specification SpecStages).                    *)
(***************************************************************************)
\* The text the conditional stage scans: tpl less its var directives.
Scanned == SelectSeq(tpl, LAMBDA tok : tok.t # "var")

\* The places of Scanned whose condition was evaluated.
Evaluated == {evals[k].at : k \in 1..Len(evals)}

\* How many times the condition at place i was evaluated.
TimesEvaluated(i) == Cardinality({k \in 1..Len(evals) : evals[k].at = i})

AfterConditionals == stage \in {"for", "interpolate", "comments", "end"}

RECURSIVE SameBranchEach(_, _, _)
\* One text interpolated once per item, the item bound to the loop's name.
SameBranchEach(chosen, items, i) ==
  IF i > Len(items) THEN Ok(<<>>)
  ELSE Then(interpolateVariables(chosen, Bind(ctx, "item", items[i]), plugins),
            SameBranchEach(chosen, items, i + 1))

C5_NestedNever ==
  /\ tpl = <<If(Path(<<"flag">>)), If(Path(<<"item">>)), EndIf>>
  /\ stage = "for"
  /\ evals = <<[at |-> 1, val |-> FALSE]>>

(***************************************************************************)
(* Properties of the current-module marker (specification Spec).           *)
(***************************************************************************)
\* C11: the marker set by module(m) is consulted only on the next render: the
\* call of render that reads it uses it up, so that a later render with no
\* module call of its own finds no marker; module changes nothing but the marker.
C11_NextRenderOnly ==
  [][/\ (\E id \in Slots : rs[id].pc = "idle" /\ rs'[id].pc # "idle")
          => currentModule' = ""
     /\ currentModule' # currentModule
          => UNCHANGED <<cfg, plugins, objs, rs, engineSet, res, resOut>>
    ]_vars

C11_MarkerKept ==
  /\ cfg.useModules
  /\ rs["r1"].pc = "done" /\ rs["r1"].marker = "admin" /\ rs["r1"].view = <<Seg("hello")>>
  /\ "r1" \in rs["r2"].prior
  /\ rs["r2"].marker = "admin" /\ rs["r2"].view = <<Seg("hello")>>
  /\ rs["r2"].path = ExpectedPath(ReplaceWildcard(cfg.views, "admin"), <<Seg("hello")>>)
  /\ currentModule = "admin"

(***************************************************************************)
(* Properties of interpolation (specification SpecValues).                 *)
(***************************************************************************)
\* The character reference the claims give for each of the eight characters.
CharacterReference(s) ==
  CASE s = "&" -> "&amp;" [] s = "<" -> "&lt;" [] s = ">" -> "&gt;"
    [] s = "\"" -> "&quot;" [] s = "'" -> "&#039;" [] s = "BACKTICK" -> "&#96;"
    [] s = "=" -> "&#61;" [] s = "/" -> "&#47;" [] OTHER -> s

\* A text with each literal character replaced by its reference.
Referenced(txt) ==
  [i \in 1..Len(txt) |->
     IF txt[i].t = "lit" THEN Lit(CharacterReference(txt[i].s)) ELSE txt[i]]

\* The value the one {{ expr }} of the text resolves to.
ValueOf(x) ==
  CASE x.e = "path" -> ctx[x.p[1]]
    [] x.e = "call" -> Str(toUpperCase(ctx["x"].txt))
    [] OTHER -> x.v

\* C12: the text {{ expr }} emits is String(v) with each of the eight characters
\* replaced by its reference, once: none of the seven other characters is left
\* and every "&" opens one of the eight references.
C12_Escaped ==
  (/\ stage = "comments" /\ Len(tpl) = 1 /\ tpl[1].t = "esc"
   /\ tpl[1].x.e = "call" => tpl[1].x = Call("upper", <<Path(<<"x">>)>>))
    => /\ text = Ok(Referenced(ToText(ValueOf(tpl[1].x))))
       /\ \A i \in 1..Len(text.txt) :
            text.txt[i].t = "lit" =>
              /\ text.txt[i].s \notin {"<", ">", "\"", "'", "BACKTICK", "=", "/", "&"}
              /\ (Len(text.txt[i].s) > 1 /\ SubSeq(text.txt[i].s, 1, 1) = "&")
                   => text.txt[i].s \in {"&amp;", "&lt;", "&gt;", "&quot;", "&#039;",
                                         "&#96;", "&#61;", "&#47;"}

C12_AmpersandOnce ==
  /\ stage = "comments"
  /\ tpl = <<Esc(Path(<<"x">>))>>
  /\ ctx["x"] = Str(<<Lit("&"), Lit("<")>>)
  /\ text = Ok(<<Lit("&amp;"), Lit("&lt;")>>)

\* C13: a view whose text is {{{ x }}} rendered with a string x returns exactly x.
C13_RawUnchanged ==
  (stage = "end" /\ tpl = <<Raw(Path(<<"x">>))>> /\ ctx["x"].k = "str")
    => text = Ok(ctx["x"].txt)

C13_CommentCut ==
  /\ stage = "end"
  /\ tpl = <<Raw(Path(<<"x">>))>>
  /\ ctx["x"] = Str(<<Lit("a"), Hash, Lit("b")>>)
  /\ text = Ok(<<Lit("a")>>)

(***************************************************************************)
(* Properties of layouts and fragments (specification Spec).               *)
(***************************************************************************)
RECURSIVE FilledFrom(_, _, _)
\* A layout text with each placeholder replaced by the block of its name, or by
\* nothing when the block map has no block of that name.
FilledFrom(txt, i, blocks) ==
  IF i > Len(txt) THEN <<>>
  ELSE (IF txt[i].t = "define"
        THEN (IF txt[i].name \in blocks.has THEN blocks.body[txt[i].name] ELSE <<>>)
        ELSE <<txt[i]>>)
       \o FilledFrom(txt, i + 1, blocks)

\* C14: the text of a call whose view names a layout is the layout's text with
\* every placeholder replaced by the view's block of that name, or by the empty
\* string when there is none, taken through the later stages; the view and its
\* layout are the only files read, also when the layout holds a layout directive.
C14_LayoutFilled ==
  (/\ rs["r1"].pc = "done" /\ rs["r2"].pc = "idle"
   /\ rs["r1"].layout # ""
   /\ Exists(FilePath(cfg.layouts \o <<Seg(rs["r1"].layout)>>, cfg.ext)))
    => LET view == readFile(rs["r1"].path).txt
           layout == readFile(FilePath(cfg.layouts \o <<Seg(rs["r1"].layout)>>, cfg.ext)).txt
           blocks == WithBody(extractBlocks(view).blocks, extractBlocks(view).content)
       IN /\ rs["r1"].out = Finish(FilledFrom(layout, 1, blocks), rs["r1"].arg, plugins).res
          /\ rs["r1"].reads =
               <<rs["r1"].path, FilePath(cfg.layouts \o <<Seg(rs["r1"].layout)>>, cfg.ext)>>

C14_InheritedName ==
  /\ rs["r1"].pc = "done" /\ rs["r2"].pc = "idle"
  /\ rs["r1"].view = <<Seg("nested")>>
  /\ Len(rs["r1"].reads) = 2
  /\ rs["r1"].out =
       Ok(<<Lit("<main>"), Lit("Hello"), Lit("function toString() { [native code] }"),
            Lit("</main>")>>)

RECURSIVE ListItems(_, _)
\* <li>item</li> for each item from the i-th on, in order, nothing in between.
ListItems(items, i) ==
  IF i > Len(items) THEN <<>>
  ELSE <<Lit("<li>")>> \o Referenced(ToText(items[i])) \o <<Lit("</li>")>>
       \o ListItems(items, i + 1)

RECURSIVE EntryLines(_, _)
\* key:value and a line end for each entry of a mapping from the i-th on.
EntryLines(obj, i) ==
  IF i > Len(obj.keys) THEN <<>>
  ELSE <<Lit(obj.keys[i]), Lit(":")>> \o Referenced(ToText(obj.vals[i])) \o <<Nl>>
       \o EntryLines(obj, i + 1)

\* C15: a loop over a list of n items yields its body n times, in the list's
\* order, the i-th copy with item bound to the i-th item, nothing in between; the
\* [key, value] form does so over the entries of a mapping; a source that does
\* not resolve yields the empty text.
C15_Loops ==
  (stage = "interpolate" /\ tpl # <<>>)
    => /\ tpl[1].t = "for" =>
            text = Ok(IF ctx["xs"].k = "list" THEN ListItems(ctx["xs"].items, 1) ELSE <<>>)
       /\ tpl[1].t = "forkv" =>
            text = Ok(IF ctx["m"].k = "obj" THEN EntryLines(ctx["m"], 1) ELSE <<>>)

C15_ThreeItems ==
  /\ stage = "interpolate"
  /\ tpl[1].t = "for"
  /\ ctx["xs"] = List(<<Str(<<Lit("B")>>), Str(<<Lit("<")>>), Str(<<Lit("A")>>)>>)
  /\ text = Ok(<<Lit("<li>"), Lit("B"), Lit("</li>"), Lit("<li>"), Lit("&lt;"), Lit("</li>"),
                 Lit("<li>"), Lit("A"), Lit("</li>")>>)

\* C16: an if (cond) A [else B] endif is replaced by A as written, with the
\* space at its ends, when cond is truthy, by B as written when cond is falsy
\* and there is an else, and by the empty text otherwise.
C16_BranchVerbatim ==
  (stage = "for" /\ tpl # <<>> /\ tpl[1].t = "if")
    => LET e == FirstOf(tpl, {"else"}, 1)
           A == SubSeq(tpl, 2, (IF e > 0 THEN e ELSE Len(tpl)) - 1)
           B == IF e > 0 THEN SubSeq(tpl, e + 1, Len(tpl) - 1) ELSE <<>>
       IN text = Ok(IF Truthy(ctx["flag"]) THEN A ELSE B)

C16_Trimmed ==
  /\ stage = "for"
  /\ tpl = <<If(Path(<<"flag">>)), Ws, Lit("Yes"), Nl, EndIf>>
  /\ ctx["flag"] = Bool(TRUE)
  /\ text = Ok(<<Lit("Yes")>>)

RECURSIVE Applied(_)
\* The result of a call as the claim has it: each argument, left to right, is the
\* result of the call it spells, else the value of the variable it names, else
\* its own text.
Applied(x) ==
  Invoke(x.f,
         [i \in 1..Len(x.args) |->
            IF x.args[i].e = "call" THEN Applied(x.args[i])
            ELSE IF ~IsNullish(resolveVariable(x.args[i], ctx))
            THEN resolveVariable(x.args[i], ctx)
            ELSE Str(<<[t |-> "src", x |-> x.args[i]]>>)])

\* C17: the output of a {{ name(args) }} or {{{ name(args) }}} token whose name is
\* registered is the plugin's result for the arguments so resolved, escaped in
\* the {{ }} form.
C17_PluginArguments ==
  (stage = "comments" /\ Len(tpl) = 1 /\ tpl[1].t \in {"esc", "raw"} /\ tpl[1].x.e = "call")
    => text = Ok(IF tpl[1].t = "esc" THEN Referenced(ToText(Applied(tpl[1].x)))
                 ELSE ToText(Applied(tpl[1].x)))

C17_NestedCallSplit ==
  /\ stage = "comments"
  /\ tpl = <<Esc(Call("upper", <<Call("upper", <<Path(<<"x">>), Path(<<"y">>)>>)>>))>>
  /\ ctx["x"] = Str(<<Lit("test")>>)
  /\ text = Ok(<<[t |-> "upper",
                  of |-> [t |-> "src",
                          x |-> Frag(Call("upper", <<Path(<<"x">>), Path(<<"y">>)>>), 1)]]>>)

\* C18: a fragment with inline params is interpolated against the caller's data
\* with the params on top: {{ x }} of the partial shows the inline x, {{ x }} of
\* the include, which passes only y, shows the caller's x and the inline y; the
\* caller's own text still sees the caller's x.
C18_InlineWins ==
  (/\ rs["r1"].pc = "done" /\ rs["r2"].pc = "idle"
   /\ rs["r1"].view = <<Seg("override")>> /\ Exists(rs["r1"].path))
    => rs["r1"].out =
         Ok(<<Lit("["), Lit("inline"), Lit("]"), Lit("<footer>")>>
            \o Referenced(ToText(rs["r1"].arg["x"]))
            \o <<Lit("inline"), Lit("</footer>")>>
            \o Referenced(ToText(rs["r1"].arg["x"])))

C18_Overridden ==
  /\ rs["r1"].pc = "done" /\ rs["r2"].pc = "idle"
  /\ rs["r1"].view = <<Seg("override")>>
  /\ rs["r1"].arg["x"] = Old
  /\ rs["r1"].out =
       Ok(<<Lit("["), Lit("inline"), Lit("]"), Lit("<footer>"), Lit("old"), Lit("inline"),
            Lit("</footer>"), Lit("old")>>)

StageRank(pc) ==
  CASE pc = "idle" -> 0
    [] pc = "exists" -> 1
    [] pc = "readView" -> 2
    [] pc = "readLayout" -> 3
    [] pc = "readPartial" -> 4
    [] pc = "readInclude" -> 5
    [] OTHER -> 6

RECURSIVE Assigned(_, _, _)
\* The data after the assignments of the var directives vs, made in order, each
\* expression evaluated against the data the earlier ones left.
Assigned(vs, i, data) ==
  IF i > Len(vs) THEN data
  ELSE Assigned(vs, i + 1, [data EXCEPT ![vs[i].name] = evaluateExpression(vs[i].x, data)])

\* C21: the var stage removes every var directive and makes their assignments in
\* text order, each seeing the earlier ones, before a condition is evaluated or a
\* loop expanded, also for a var inside a branch; no later stage changes the data
\* or brings a var directive back, and the conditions, loop sources and
\* interpolations that follow are resolved against the data so bound.
C21_VarsFirst ==
  [][/\ stage = "var" =>
          /\ evals = <<>>
          /\ text'.txt = SelectSeq(text.txt, LAMBDA tok : tok.t # "var")
          /\ ctx' = Assigned(Matches(text.txt, "var"), 1, ctx)
          /\ stage' = "if"
     /\ stage # "var" =>
          /\ ctx' = ctx
          /\ text'.ok => Matches(text'.txt, "var") = <<>>
     /\ stage = "if" => text' = Ok(processConditionals(text.txt, ctx'))
     /\ stage = "for" => text' = processLoops(text.txt, ctx', plugins)
     /\ stage = "interpolate" => text' = interpolateVariables(text.txt, ctx', plugins)
    ]_vars

C21_BoundInUntakenBranch ==
  /\ stage = "end"
  /\ Len(tpl) > 6 /\ FirstOf(tpl, {"var"}, 1) = 3
  /\ tpl[6] = Var("y", Path(<<"x">>))
  /\ ctx["flag"] = Bool(FALSE)
  /\ ctx["x"] = New /\ ctx["y"] = New /\ ctx["xs"] = List(<<New, Old>>)
  /\ text = Ok(<<Lit("v"), Lit("new"), Lit("new"), Lit("old"), Lit("new")>>)

(***************************************************************************)
(* The marker in flat mode (specification Spec).                           *)
(***************************************************************************)
\* C22: in flat mode a call resolves the file of its view name under the views
\* root (with the default view name, if any) and, run with no other call beside
\* it, ends as it does on an engine whose marker was never set.
C22_FlatIgnoresMarker ==
  (~cfg.useModules /\ rs["r1"].pc # "idle")
    => /\ rs["r1"].path = JoinView(cfg, cfg.views, rs["r1"].view)
       /\ (rs["r1"].pc = "done" /\ rs["r2"].pc = "idle")
            => rs["r1"].out = RunAlone(cfg, "", rs["r1"].view, rs["r1"].arg, plugins)

C22_MarkerInFlatPath ==
  /\ ~cfg.useModules /\ cfg.viewName = ""
  /\ rs["r1"].pc = "done" /\ rs["r2"].pc = "idle"
  /\ rs["r1"].view = <<Seg("hello")>> /\ rs["r1"].marker = "admin"
  /\ rs["r1"].out =
       Fail("No files found: ",
            FilePath(ViewsRoot \o <<StarSeg("admin"), Seg("hello")>>, Html))
  /\ RunAlone(cfg, "", rs["r1"].view, rs["r1"].arg, plugins).ok

(***************************************************************************)
(* The resolution of one token (specification SpecValues).                 *)
(***************************************************************************)
\* What a step of the resolution supplies: v when the step succeeded with v.
Succeeded(v) == ~IsNullish(v) /\ v # Throw

\* The value the first step that succeeds supplies for the expression x: the
\* variable, else the plugin's result, else the evaluated expression, else none.
FirstSuccess(x) ==
  IF Succeeded(resolveVariable(x, ctx)) THEN resolveVariable(x, ctx)
  ELSE IF Succeeded(callPlugin(x, ctx, plugins)) THEN callPlugin(x, ctx, plugins)
  ELSE IF Succeeded(evaluateExpression(x, ctx)) THEN evaluateExpression(x, ctx)
  ELSE Undef

\* C23: a template of one interpolation token, whose data hold plain text, comes
\* out of interpolation as the value of the first step that succeeds (escaped
\* in the {{ }} form), and as the empty text when no step succeeds.
C23_FirstSuccess ==
  (/\ stage = "comments" \/ (stage = "end" /\ ~text.ok)
   /\ Len(tpl) = 1 /\ tpl[1].t \in {"esc", "raw"}
   /\ ctx["x"].k = "str" => \A i \in 1..Len(ctx["x"].txt) : ctx["x"].txt[i].t = "lit")
    => text = Ok(IF tpl[1].t = "esc" THEN escapeHtml(FirstSuccess(tpl[1].x))
                 ELSE ToText(FirstSuccess(tpl[1].x)))

C23_PluginThrowAborts ==
  /\ stage = "end"
  /\ tpl = <<Esc(Call("boom", <<Path(<<"x">>)>>))>>
  /\ text = PluginThrew
  /\ ~Succeeded(resolveVariable(tpl[1].x, ctx))
  /\ ~Succeeded(evaluateExpression(tpl[1].x, ctx))

(***************************************************************************)
(* The block map of a view (specification Spec).                           *)
(***************************************************************************)
\* The names of the block ... endblock pairs a text declares.
Declared(txt) ==
  {txt[i].name : i \in {j \in 1..Len(txt) :
                          txt[j].t = "block" /\ FirstOf(txt, {"endblock"}, j + 1) > 0}}

\* C24: when the view is read and has a layout, the block map holds the blocks
\* the view declares as extracted, and body is the remainder exactly when the
\* remainder is not blank and the view declares no block named body; a declared
\* body block, empty or not, is kept.
C24_ImplicitBody ==
  \A id \in Slots :
    rs[id].pc = "readLayout" =>
      LET view == readFile(rs[id].path).txt
          eb == extractBlocks(view)
          blank == \A i \in 1..Len(eb.content) : IsSpace(eb.content[i])
      IN /\ eb.blocks.has = Declared(view)
         /\ \A n \in BlockNames \ {"body"} : rs[id].blocks.body[n] = eb.blocks.body[n]
         /\ rs[id].blocks.body["body"] =
              IF "body" \notin Declared(view) /\ ~blank THEN eb.content
              ELSE eb.blocks.body["body"]

C24_EmptyBodyReplaced ==
  /\ rs["r1"].pc = "readLayout"
  /\ rs["r1"].view = <<Seg("emptybody")>>
  /\ "body" \in Declared(readFile(rs["r1"].path).txt)
  /\ rs["r1"].blocks.body["body"] = <<Layout("base"), Lit("rest")>>

(***************************************************************************)
(* Directives written in a fragment (specification Spec).                  *)
(***************************************************************************)
\* The directives a fragment is not to execute.
Inert == {"var", "if", "else", "endif", "for", "forkv", "endfor", "partial", "include"}

\* C25: the step that reads a fragment and puts its rendered text into the host
\* text brings in no var, if, else, endif, for, endfor, partial or include
\* directive (the host text keeps its own, less the one replaced), changes no
\* data and adds no file to load; a view that uses the fragment ctl as a partial
\* and as an include ends, after three reads, with the text it had before the
\* include was read and, for the include, both branches and the loop body of ctl
\* as plain text and its two interpolations.
C25_FragmentsInterpolatedOnly ==
  [][\A id \in Slots :
       /\ (rs[id].pc \in {"readPartial", "readInclude"} /\ rs'[id] # rs[id]
           /\ rs'[id].pc \in {"readPartial", "readInclude"})
            => /\ SelectSeq(rs'[id].content, LAMBDA tok : tok.t \in Inert)
                    = SelectSeq(rs[id].content,
                                LAMBDA tok : tok.t \in Inert /\ tok # Head(rs[id].todo))
               /\ rs'[id].todo = IF rs'[id].pc = rs[id].pc THEN Tail(rs[id].todo)
                                 ELSE Matches(rs[id].content, "include")
               /\ objs' = objs
       /\ (rs[id].view = <<Seg("usectl")>> /\ rs'[id].pc = "done" /\ rs[id].pc = "readInclude")
            => /\ objs' = objs
               /\ Len(rs'[id].reads) = 3
               /\ rs'[id].out =
                    Ok(LET Ctl(x) == <<Lit("then"), Lit("else"), Lit("i")>>
                                       \o escapeHtml(x) \o ToText(x)
                       IN SubSeq(rs[id].content, 1,
                                 FirstOf(rs[id].content, {"include"}, 1) - 1)
                          \o Ctl(objs[rs[id].ref]["x"]) \o <<Lit("|")>>
                          \o escapeHtml(objs[rs[id].ref]["x"]))
    ]_vars

C25_CtlTwice ==
  /\ rs["r1"].pc = "done" /\ rs["r1"].view = <<Seg("usectl")>> /\ rs["r1"].out.ok
  /\ rs["r1"].ref = Shared /\ objs[Shared]["x"] = Old
  /\ rs["r1"].reads[2] = FilePath(PartialsPath \o <<Seg("ctl")>>, Html)
  /\ rs["r1"].reads[3] = FilePath(Dirname(rs["r1"].path) \o <<Seg("includes"), Seg("ctl")>>, Html)
  /\ rs["r1"].out.txt[1] = Lit("then") /\ rs["r1"].out.txt[2] = Lit("else")

(***************************************************************************)
(* Comments (specification SpecValues).                                    *)
(***************************************************************************)
\* C26: a template that holds a comment ends as the same template without the
\* commented span does, run on the same data (y, the one name the templates
\* assign, is unbound at the start).
C26_CommentsInert ==
  (stage = "end" /\ FirstOf(tpl, {"hash"}, 1) > 0)
    => text = Finish(removeComments(tpl), [ctx EXCEPT !["y"] = Undef], plugins).res

C26_VarInCommentBinds ==
  /\ stage = "end"
  /\ tpl = <<Lit("a"), Hash, Var("y", Const(New)), Nl, Esc(Path(<<"y">>))>>
  /\ ctx["y"] = New
  /\ text = Ok(<<Lit("a"), Nl, Lit("new")>>)
  /\ Finish(removeComments(tpl), [ctx EXCEPT !["y"] = Undef], plugins).res = Ok(<<Lit("a"), Nl>>)

(***************************************************************************)
(* Data values in the output (specification SpecValues).                   *)
(***************************************************************************)
RECURSIVE EscapedItems(_, _)
\* The escaped texts of the items of a list, one after the other.
EscapedItems(items, i) ==
  IF i > Len(items) THEN <<>> ELSE escapeHtml(items[i]) \o EscapedItems(items, i + 1)

\* C27: the text a data value contributes is in the output as interpolation left
\* it (escaped in the {{ }} form): for a template of one token on the variable x,
\* and for a loop whose body is {{ item }}, whatever the value spells.
C27_ValuesInert ==
  (stage = "end" /\ text.ok)
    => /\ tpl = <<Esc(Path(<<"x">>))>> => text.txt = escapeHtml(ctx["x"])
       /\ tpl = <<Raw(Path(<<"x">>))>> => text.txt = ToText(ctx["x"])
       /\ tpl = <<Lit("v"), For("item", Path(<<"xs">>)), Esc(Path(<<"item">>)), EndFor>>
            => text.txt = <<Lit("v")>> \o EscapedItems(ctx["xs"].items, 1)

C27_ItemInterpolatedAgain ==
  /\ stage = "end"
  /\ tpl = <<Lit("v"), For("item", Path(<<"xs">>)), Esc(Path(<<"item">>)), EndFor>>
  /\ ctx["xs"] = List(<<Str(<<Esc(Path(<<"y">>))>>), Str(<<Lit("<")>>)>>)
  /\ ctx["y"] = New
  /\ text = Ok(<<Lit("v"), Lit("new"), Lit("&lt;")>>)

(***************************************************************************)
(* Fragment and loop bindings (specification Spec).                        *)
(***************************************************************************)
\* C28: no data object ever holds item, key or y, the names only the inline
\* params and the loops of the views bind; the step that reads a fragment leaves
\* the data as they are; and the view locals, whose partial is given x and item,
\* whose loop binds item and whose include is given y, ends with the partial
\* showing the inline x, the loop its items, the include the x of the data and
\* the inline y, and the text outside them the x of the data and nothing for
\* item and y.
C28_BindingsLocal ==
  /\ \A o \in DOMAIN objs : \A n \in {"item", "key", "y"} : objs[o][n] = Undef
  /\ \A id \in Slots :
       (rs[id].pc = "done" /\ rs[id].out.ok /\ rs[id].view = <<Seg("locals")>>)
         => \E a, b \in {rs[id].arg["x"], New} :
              rs[id].out.txt =
                <<Lit("["), Lit("inline"), Lit("]")>>
                \o (IF rs[id].arg["xs"].k = "list"
                    THEN EscapedItems(rs[id].arg["xs"].items, 1) ELSE <<>>)
                \o <<Lit("|"), Lit("<footer>")>>
                \o escapeHtml(a) \o <<Lit("inline"), Lit("</footer>")>> \o escapeHtml(b)

C28_LocalsRendered ==
  /\ rs["r1"].pc = "done" /\ rs["r1"].out.ok /\ rs["r1"].view = <<Seg("locals")>>
  /\ rs["r1"].ref = Shared /\ rs["r2"].pc = "idle"
  /\ Len(rs["r1"].reads) = 3
  /\ objs[Shared] = SharedData
  /\ SubSeq(rs["r1"].out.txt, 4, 6) = <<Lit("true"), Lit("false"), Lit("|")>>

(***************************************************************************)
(* The marker and a call in flight (specification Spec).                   *)
(***************************************************************************)
\* C29: whatever the marker is now, a call that has a path has the path its view
\* name resolves to under the marker it began with; the first file it reads is
\* that one, every file it reads after it that is no layout and no partial lies
\* under the directory of that one; and a step of module changes no call.
C29_MarkerAtCall ==
  [][/\ \A id \in Slots :
          (rs'[id].pc # "idle" /\ rs'[id].path # NoPath) =>
            /\ rs'[id].path =
                 viewFilePathResolver(cfg, rs'[id].marker,
                                      WithModule(rs'[id].marker, rs'[id].view))
            /\ rs'[id].reads # <<>> => rs'[id].reads[1] = rs'[id].path
            /\ \A i \in 2..Len(rs'[id].reads) :
                 \/ SubSeq(rs'[id].reads[i].segs, 1, 1) \in {LayoutsPath, PartialsPath}
                 \/ SubSeq(rs'[id].reads[i].segs, 1, Len(rs'[id].path.segs) - 1)
                      = Dirname(rs'[id].path)
            /\ (rs[id].pc # "idle" /\ rs[id].path # NoPath) => rs'[id].path = rs[id].path
     /\ currentModule' # currentModule => rs' = rs /\ objs' = objs
    ]_vars

C29_MarkerChangedInFlight ==
  /\ cfg.useModules
  /\ rs["r1"].pc = "done" /\ rs["r1"].out.ok
  /\ rs["r1"].view = <<Seg("inc")>> /\ rs["r1"].marker = "admin"
  /\ rs["r2"].pc = "exists" /\ rs["r2"].marker = "user-profile"
  /\ rs["r2"].prior = {}
  /\ rs["r1"].reads[2].segs = <<Seg("modules"), Seg("admin"), Seg("pages")>> \o Footer

(***************************************************************************)
(* A view with blocks and no layout (specification Spec).                  *)
(***************************************************************************)
RECURSIVE Outside(_, _, _)
\* The tokens of a text that stand in no block ... endblock pair.
Outside(txt, i, inBlock) ==
  IF i > Len(txt) THEN <<>>
  ELSE IF inBlock
  THEN Outside(txt, i + 1, txt[i].t # "endblock")
  ELSE IF txt[i].t = "block" /\ FirstOf(txt, {"endblock"}, i + 1) > 0
  THEN Outside(txt, i + 1, TRUE)
  ELSE <<txt[i]>> \o Outside(txt, i + 1, FALSE)

\* C30: a call, run with no other beside it, whose view has no layout, no partial
\* and no include ends as the tail of render does on the text outside the view's
\* blocks; the view blocksonly returns that text with no token of a block body.
C30_RemainderOnly ==
  (rs["r1"].pc = "done" /\ rs["r2"].pc = "idle" /\ Exists(rs["r1"].path))
    => LET view == readFile(rs["r1"].path).txt
       IN /\ FirstOf(view, {"layout", "partial", "include"}, 1) = 0
               => rs["r1"].out = Finish(Outside(view, 1, FALSE), rs["r1"].arg, plugins).res
          /\ rs["r1"].view = <<Seg("blocksonly")>>
               => /\ rs["r1"].out = Ok(<<Lit("a"), Ws, Lit("b")>>)
                  /\ Len(rs["r1"].reads) = 1

C30_BlocksDropped ==
  /\ rs["r1"].pc = "done" /\ rs["r2"].pc = "idle"
  /\ rs["r1"].view = <<Seg("blocksonly")>> /\ rs["r1"].out.ok
  /\ extractBlocks(readFile(rs["r1"].path).txt).blocks.has = {"content", "body"}
  /\ rs["r1"].out = Ok(<<Lit("a"), Ws, Lit("b")>>)
====
